---- MODULE Spec2Model ----
(***************************************************************************)
(* State-machine model of the hand-gesture driven Earth controller:        *)
(*   src/js/earth.js     dual-Earth lifecycle, merge animation, zoom       *)
(*   src/js/main.js      processGestures / animate (the frame step)        *)
(*   src/js/gestures.js  gesture classification, wave history              *)
(*   src/js/earth.js     particles of an object (disperse, converge,       *)
(*                       integration step)                                 *)
(*   src/js/earth.js     (second half) tracker results and handedness      *)
(*                                                                         *)
(* Numbers are fixed point in thousandths: a scale of 1.0 is 1000, the     *)
(* horizontal offset 1.2 is 1200, a normalized landmark coordinate 0.46 is *)
(* 460.  Times are milliseconds.  Products are divided back with           *)
(* truncation, as noted at each use.                                       *)
(*                                                                         *)
(* The program reads the wall clock only as the difference                 *)
(* Date.now() - startTime inside the merge animation, so the clock is kept *)
(* as that difference: each pending mergeAnimation closure carries its     *)
(* elapsed time, which is 0 when mergeEarths creates the closure and grows *)
(* with every tick of the clock.  Math.min(elapsed / duration, 1) makes    *)
(* all elapsed times from the duration on equivalent, so the elapsed time  *)
(* stops growing there.                                                    *)
(***************************************************************************)
EXTENDS Integers, Sequences, FiniteSets

VARIABLES
    \* earth.js module state
    earthGroup,         \* primary object: [visible, scale]
    leftEarth,          \* NULL or [x, scale]
    rightEarth,         \* NULL or [x, scale]
    isDualMode,
    isMerging,
    earthScale,
    targetScale,
    \* rendering scene: number of children carrying each object name
    \* (mainEarth, leftEarth, rightEarth)
    scene,
    \* browser: pending requestAnimationFrame(mergeAnimation) closures, each
    \* with its elapsed time Date.now() - startTime
    rafQueue,
    \* gestures.js module state: per hand ("left", "right") the retained
    \* samples [x, y, age], oldest first; age is Date.now() - time
    handHistory,
    \* main.js module state
    dualEarthCooldown,
    previousPinchDistance,
    \* tracker: latestHandResults, a sequence of [label, landmarks]
    latestHandResults,
    \* history: the operation that made the last step, and the lifecycle
    \* mode in which that operation began
    lastOp,
    prevMode,
    \* history: frames run since the frame that last spawned (-1 before the
    \* first spawn), and the frames between the last two spawns (0 before
    \* the second spawn)
    framesSinceSpawn,
    spawnGap,
    \* history: the writes of the last step to the objects' particles,
    \* dispersion amount and rotation, to the zoom target and to the yaw
    \* accumulator, and its calls of the lifecycle controller, in program order
    effects,
    \* history: the last detectWave call (hand, landmarks, result)
    lastWave,
    \* history: per hand, how many of the samples recorded last have the
    \* same x as the newest one (it stops counting at RunCap)
    equalRun,
    \* the classifiers of gestures.js applied on their own: the input they
    \* are given and, once applied, what they return
    probe,
    \* earth.js: the particle data (userData) of one object, under direct
    \* calls of disperseParticles and convergeParticles
    body,
    \* history: the frames in a row, up to now, that converged the body and
    \* did not disperse it (it stops counting at ConvergeFrames)
    convergeRun,
    \* history: the milliseconds since the tracker delivered
    \* latestHandResults, and whether a frame has read that result
    capture

vars == << earthGroup, leftEarth, rightEarth, isDualMode, isMerging,
           earthScale, targetScale, scene, rafQueue,
           handHistory,
           dualEarthCooldown, previousPinchDistance, latestHandResults,
           lastOp, prevMode, framesSinceSpawn, spawnGap, effects,
           lastWave, equalRun, probe, body, convergeRun, capture >>

\* every variable of the program (the history variables excluded)
progVars == << earthGroup, leftEarth, rightEarth, isDualMode, isMerging,
               earthScale, targetScale, scene, rafQueue, handHistory,
               dualEarthCooldown, previousPinchDistance, latestHandResults >>

----------------------------------------------------------------------------
\* Bounds of the model

\* the wall clock advances in quanta of TickMs milliseconds
TickMs == 500

\* the frame counters stop counting at FrameCap, which stands for "FrameCap
\* frames or more"
FrameCap == 90

\* the clock stops while a retained sample is MaxSampleAge milliseconds old
MaxSampleAge == 500

\* the count of equal samples stops at RunCap, which stands for "RunCap
\* samples or more"
RunCap == 6

\* distances are below MaxDistance (coordinates are within 0..1000)
MaxDistance == 2000

\* disperseParticles is not called on a body whose outer particle is faster
\* than MaxVelocity (thousandths per frame)
MaxVelocity == 300

\* a frame does not disperse a body whose outer particle is faster than
\* FrameMaxVelocity (thousandths per frame)
FrameMaxVelocity == 30

\* a frame that does not converge a body is not taken once the outer
\* particle is further than MaxDrift from its rest position (thousandths)
MaxDrift == 200

\* the number of converging frames in a row after which a body is taken
\* to have settled
ConvergeFrames == 100

\* a particle has settled when it is nearer than Epsilon to its rest
\* position (thousandths); a pull of 8% of a distance below 0.0125 is less
\* than one thousandth
Epsilon == 13

----------------------------------------------------------------------------
\* Helpers

NULL == [isNull |-> TRUE]

Min(a, b) == IF a < b THEN a ELSE b

Max(a, b) == IF a > b THEN a ELSE b

\* integer quotient truncated toward zero (d > 0)
TruncDiv(a, d) == IF a >= 0 THEN a \div d ELSE -((-a) \div d)

\* Math.abs, Math.sign
Abs(n) == IF n < 0 THEN -n ELSE n

Sign(n) == IF n > 0 THEN 1 ELSE IF n < 0 THEN -1 ELSE 0

\* Math.sqrt, rounded down to a whole number of thousandths
Sqrt(n) == CHOOSE r \in 0..MaxDistance : r * r <= n /\ n < (r + 1) * (r + 1)

----------------------------------------------------------------------------
\* gestures.js : landmark sets and classification
\*
\* A landmark set is represented by what the classifiers read from it: its
\* palm center (x, y), the number of fingers whose tip-to-wrist distance is
\* below 1.2 x base-to-wrist (curledCount of isGrasping), the number of
\* fingers whose tip-to-wrist distance is above 1.1 x pip-to-wrist
\* (extendedCount of isOpenHand) and the 3D distance between thumb tip and
\* index tip.  The frame step reads one more thing of a hand, the verdict
\* isWaving that detectWave reaches from the hand's history: in the frame
\* step that verdict is an input, carried with the landmark set (waving);
\* detectWave and the history it keeps are modelled on their own below.

PINCH_THRESHOLD == 60

SAME_LOCATION_THRESHOLD == 120

FistLeft ==
    [ palm |-> << 460, 500 >>, curled |-> 4, extended |-> 0, pinch |-> 90,
      waving |-> FALSE ]

FistRight ==
    [ palm |-> << 540, 500 >>, curled |-> 4, extended |-> 0, pinch |-> 90,
      waving |-> FALSE ]

OpenFar ==
    [ palm |-> << 200, 500 >>, curled |-> 0, extended |-> 4, pinch |-> 150,
      waving |-> FALSE ]

PinchFar ==
    [ palm |-> << 800, 500 >>, curled |-> 1, extended |-> 2, pinch |-> 40,
      waving |-> FALSE ]

\* a hand that pinches tighter than PinchFar
PinchNear ==
    [ palm |-> << 800, 500 >>, curled |-> 1, extended |-> 2, pinch |-> 20,
      waving |-> FALSE ]

\* an open hand that detectWave finds waving
OpenWave ==
    [ palm |-> << 700, 500 >>, curled |-> 0, extended |-> 4, pinch |-> 150,
      waving |-> TRUE ]

Poses == { FistLeft, FistRight, OpenFar, PinchFar }

\* faulty variant: a distance equal to the threshold is a pinch
detectPinch_Inclusive(landmarks) ==
    IF landmarks = NULL
    THEN [isPinching |-> FALSE, distance |-> 1000]
    ELSE [isPinching |-> landmarks.pinch <= PINCH_THRESHOLD,
          distance |-> landmarks.pinch]

detectPinch(landmarks) ==
    IF landmarks = NULL
    THEN [isPinching |-> FALSE, distance |-> 1000]
    ELSE [isPinching |-> landmarks.pinch < PINCH_THRESHOLD,
          distance |-> landmarks.pinch]

getPalmCenter(landmarks) == landmarks.palm

\* samples retained per hand
HISTORY_LENGTH == 5

\* 0.02 per second, in thousandths
WAVE_VELOCITY_THRESHOLD == 20

HandTypes == {"left", "right"}

OtherHand(handType) == IF handType = "left" THEN "right" ELSE "left"

NoWave == [isWaving |-> FALSE, velocity |-> 0, direction |-> 0]

\* faulty variant: six samples are retained
trimHistory_KeepSix(history) ==
    IF Len(history) > HISTORY_LENGTH + 1
    THEN SubSeq(history, Len(history) - HISTORY_LENGTH, Len(history))
    ELSE history

\* while (history.length > HISTORY_LENGTH) history.shift()
trimHistory(history) ==
    IF Len(history) > HISTORY_LENGTH
    THEN SubSeq(history, Len(history) - HISTORY_LENGTH + 1, Len(history))
    ELSE history

\* faulty variant: the sample is put in front of the retained ones
recordSample_Prepend(history, palmCenter) ==
    trimHistory(<< [x |-> palmCenter[1], y |-> palmCenter[2], age |-> 0] >>
                \o history)

\* history.push({x, y, time: Date.now()}), then the trimming
recordSample(history, palmCenter) ==
    trimHistory(Append(history,
                       [x |-> palmCenter[1], y |-> palmCenter[2], age |-> 0]))

\* faulty variant: the velocity is taken between the two newest samples
waveEstimate_Adjacent(history) ==
    IF Len(history) < 2 THEN NoWave
    ELSE LET oldest == history[Len(history) - 1]
             newest == history[Len(history)]
             timeDelta == oldest.age - newest.age
             dx == newest.x - oldest.x
         IN  IF timeDelta < 10 THEN NoWave
             ELSE [ isWaving |->
                      Abs(dx) * 1000 > WAVE_VELOCITY_THRESHOLD * timeDelta,
                    velocity |-> (Abs(dx) * 1000) \div timeDelta,
                    direction |-> Sign(dx) ]

\* the result detectWave computes from the retained samples.  timeDelta is
\* newest.time - oldest.time in milliseconds (the code divides it by 1000
\* and compares with 0.01); the velocity is in thousandths per second,
\* truncated; the comparison with the threshold is made on the exact
\* quotient, by cross-multiplication
waveEstimate(history) ==
    IF Len(history) < 2 THEN NoWave
    ELSE LET oldest == history[1]
             newest == history[Len(history)]
             timeDelta == oldest.age - newest.age
             dx == newest.x - oldest.x
         IN  IF timeDelta < 10 THEN NoWave
             ELSE [ isWaving |->
                      Abs(dx) * 1000 > WAVE_VELOCITY_THRESHOLD * timeDelta,
                    velocity |-> (Abs(dx) * 1000) \div timeDelta,
                    direction |-> Sign(dx) ]

\* faulty variant: the history of a hand that is not detected is cleared
detectWave_ClearOnAbsent(history, landmarks) ==
    IF landmarks = NULL
    THEN [history |-> << >>, wave |-> NoWave]
    ELSE LET recorded == recordSample(history, getPalmCenter(landmarks))
         IN  [history |-> recorded, wave |-> waveEstimate(recorded)]

\* detectWave on the history of one hand: the new history and the result
detectWave(history, landmarks) ==
    IF landmarks = NULL
    THEN [history |-> history, wave |-> NoWave]
    ELSE LET recorded == recordSample(history, getPalmCenter(landmarks))
         IN  [history |-> recorded, wave |-> waveEstimate(recorded)]

\* a hand whose palm center is at x; detectWave reads the palm center only
WavePose(x) ==
    [ palm |-> << x, 500 >>, curled |-> 0, extended |-> 4, pinch |-> 150,
      waving |-> FALSE ]

\* the calls of detectWave: the left hand at three places, 0.005 and 0.03
\* apart, the right hand at one place, and either hand not detected
WaveInputs ==
    { << "left", WavePose(x) >> : x \in {500, 505, 530} }
    \cup { << "right", WavePose(500) >> }
    \cup { << handType, NULL >> : handType \in HandTypes }

\* squared 2D distance; thresholds are compared squared
distance2DSq(p1, p2) ==
    (p1[1] - p2[1]) * (p1[1] - p2[1]) + (p1[2] - p2[2]) * (p1[2] - p2[2])

\* faulty variant: all four fingers have to be curled
isGrasping_AllFour(landmarks) ==
    IF landmarks = NULL THEN FALSE ELSE landmarks.curled >= 4

isGrasping(landmarks) ==
    IF landmarks = NULL THEN FALSE ELSE landmarks.curled >= 3

isOpenHand(landmarks) ==
    IF landmarks = NULL THEN FALSE ELSE landmarks.extended >= 3

isSameLocation(leftLandmarks, rightLandmarks) ==
    IF leftLandmarks = NULL \/ rightLandmarks = NULL
    THEN FALSE
    ELSE distance2DSq(getPalmCenter(leftLandmarks), getPalmCenter(rightLandmarks))
            < SAME_LOCATION_THRESHOLD * SAME_LOCATION_THRESHOLD

\* faulty variant: the place of the hands is not looked at
detectGrasp_AnyPlace(leftLandmarks, rightLandmarks) ==
    IF leftLandmarks = NULL \/ rightLandmarks = NULL
    THEN FALSE
    ELSE isGrasping(leftLandmarks) /\ isGrasping(rightLandmarks)

detectGrasp(leftLandmarks, rightLandmarks) ==
    IF leftLandmarks = NULL \/ rightLandmarks = NULL
    THEN FALSE
    ELSE /\ isGrasping(leftLandmarks) /\ isGrasping(rightLandmarks)
         /\ isSameLocation(leftLandmarks, rightLandmarks)

getGestureState(leftLandmarks, rightLandmarks) ==
    [ left  |-> [ detected |-> leftLandmarks # NULL,
                  pinch |-> detectPinch(leftLandmarks),
                  wave |-> [ isWaving |-> IF leftLandmarks = NULL THEN FALSE
                                           ELSE leftLandmarks.waving ],
                  grasping |-> isGrasping(leftLandmarks),
                  open |-> isOpenHand(leftLandmarks) ],
      right |-> [ detected |-> rightLandmarks # NULL,
                  pinch |-> detectPinch(rightLandmarks),
                  wave |-> [ isWaving |-> IF rightLandmarks = NULL THEN FALSE
                                           ELSE rightLandmarks.waving ],
                  grasping |-> isGrasping(rightLandmarks),
                  open |-> isOpenHand(rightLandmarks) ],
      bothHands |-> [ detected |-> leftLandmarks # NULL /\ rightLandmarks # NULL,
                      sameLocation |-> isSameLocation(leftLandmarks, rightLandmarks),
                      grasping |-> detectGrasp(leftLandmarks, rightLandmarks) ] ]

\* The rest of the gesture state, which no frame step reads: the distance
\* between the hands and the spread and converge verdicts drawn from it and
\* from the previous gesture state.

SPREAD_THRESHOLD == 300

CONVERGE_THRESHOLD == 150

getHandsDistance(leftLandmarks, rightLandmarks) ==
    IF leftLandmarks = NULL \/ rightLandmarks = NULL
    THEN 0
    ELSE Sqrt(distance2DSq(getPalmCenter(leftLandmarks),
                           getPalmCenter(rightLandmarks)))

\* the object {} : the previous state before the first frame
EmptyState == [empty |-> TRUE]

\* previousState.handsDistance || null : NULL or [value |-> the distance]
previousDistanceOf(previousState) ==
    IF previousState = EmptyState THEN NULL
    ELSE IF previousState.handsDistance = 0 THEN NULL
    ELSE [value |-> previousState.handsDistance]

detectSpread(leftLandmarks, rightLandmarks, previousDistance) ==
    LET currentDistance == getHandsDistance(leftLandmarks, rightLandmarks)
    IN  IF leftLandmarks = NULL \/ rightLandmarks = NULL
           \/ previousDistance = NULL
        THEN [isSpreading |-> FALSE, delta |-> 0,
              currentDistance |-> currentDistance]
        ELSE LET delta == currentDistance - previousDistance.value
             IN  [ isSpreading |-> delta > 20
                                   /\ currentDistance > SPREAD_THRESHOLD,
                   delta |-> delta,
                   currentDistance |-> currentDistance ]

\* faulty variant: an absent hand is not looked for
detectConverge_NoGuard(leftLandmarks, rightLandmarks, previousDistance) ==
    LET currentDistance == getHandsDistance(leftLandmarks, rightLandmarks)
    IN  IF previousDistance = NULL
        THEN [isConverging |-> FALSE, delta |-> 0,
              currentDistance |-> currentDistance]
        ELSE LET delta == previousDistance.value - currentDistance
             IN  [ isConverging |-> delta > 20
                                    /\ currentDistance < CONVERGE_THRESHOLD,
                   delta |-> delta,
                   currentDistance |-> currentDistance ]

detectConverge(leftLandmarks, rightLandmarks, previousDistance) ==
    LET currentDistance == getHandsDistance(leftLandmarks, rightLandmarks)
    IN  IF leftLandmarks = NULL \/ rightLandmarks = NULL
           \/ previousDistance = NULL
        THEN [isConverging |-> FALSE, delta |-> 0,
              currentDistance |-> currentDistance]
        ELSE LET delta == previousDistance.value - currentDistance
             IN  [ isConverging |-> delta > 20
                                    /\ currentDistance < CONVERGE_THRESHOLD,
                   delta |-> delta,
                   currentDistance |-> currentDistance ]

\* getGestureState with all its fields
getFullGestureState(leftLandmarks, rightLandmarks, previousState) ==
    LET read == getGestureState(leftLandmarks, rightLandmarks)
        spread == detectSpread(leftLandmarks, rightLandmarks,
                               previousDistanceOf(previousState))
        converge == detectConverge(leftLandmarks, rightLandmarks,
                                   previousDistanceOf(previousState))
    IN  [ left |-> read.left,
          right |-> read.right,
          bothHands |-> [ detected |-> read.bothHands.detected,
                          sameLocation |-> read.bothHands.sameLocation,
                          spreading |-> spread.isSpreading,
                          converging |-> converge.isConverging,
                          grasping |-> read.bothHands.grasping ],
          handsDistance |-> getHandsDistance(leftLandmarks, rightLandmarks),
          spreadDelta |-> spread.delta,
          convergeDelta |-> converge.delta ]

\* faulty variant: a pinch is named before the pair of hands
getGestureName_PinchFirst(gestureState) ==
    IF gestureState.bothHands.grasping THEN "CLASPED - MERGE"
    ELSE IF gestureState.left.grasping \/ gestureState.right.grasping
    THEN "FIST - CONVERGE"
    ELSE IF gestureState.left.open \/ gestureState.right.open
    THEN "OPEN - DISPERSE"
    ELSE IF gestureState.left.pinch.isPinching
            \/ gestureState.right.pinch.isPinching
    THEN "PINCH - ZOOM"
    ELSE IF gestureState.bothHands.detected THEN "DUAL EARTH MODE"
    ELSE IF gestureState.left.wave.isWaving
            \/ gestureState.right.wave.isWaving
    THEN "WAVE - ROTATE"
    ELSE IF gestureState.left.detected \/ gestureState.right.detected
    THEN "HAND DETECTED"
    ELSE "AWAITING INPUT"

getGestureName(gestureState) ==
    IF gestureState.bothHands.grasping THEN "CLASPED - MERGE"
    ELSE IF gestureState.left.grasping \/ gestureState.right.grasping
    THEN "FIST - CONVERGE"
    ELSE IF gestureState.left.open \/ gestureState.right.open
    THEN "OPEN - DISPERSE"
    ELSE IF gestureState.bothHands.detected THEN "DUAL EARTH MODE"
    ELSE IF gestureState.left.pinch.isPinching
            \/ gestureState.right.pinch.isPinching
    THEN "PINCH - ZOOM"
    ELSE IF gestureState.left.wave.isWaving
            \/ gestureState.right.wave.isWaving
    THEN "WAVE - ROTATE"
    ELSE IF gestureState.left.detected \/ gestureState.right.detected
    THEN "HAND DETECTED"
    ELSE "AWAITING INPUT"

----------------------------------------------------------------------------
\* gestures.js : the 21 landmark points and the readings taken from them
\*
\* A point is << x, y, z >>.  The classifiers read the landmarks 0 (wrist),
\* 4 (thumb tip) and, of the four fingers, 5 9 13 17 (base), 6 10 14 18
\* (pip) and 8 12 16 20 (tip).

LandmarkIndices == {0, 4, 5, 6, 8, 9, 10, 12, 13, 14, 16, 17, 18, 20}

distance3DSq(p1, p2) ==
    (p1[1] - p2[1]) * (p1[1] - p2[1])
    + (p1[2] - p2[2]) * (p1[2] - p2[2])
    + (p1[3] - p2[3]) * (p1[3] - p2[3])

distance3D(p1, p2) == Sqrt(distance3DSq(p1, p2))

\* [tip, base] of isGrasping and [tip, pip] of isOpenHand
graspChecks == << << 8, 5 >>, << 12, 9 >>, << 16, 13 >>, << 20, 17 >> >>

openChecks == << << 8, 6 >>, << 12, 10 >>, << 16, 14 >>, << 20, 18 >> >>

\* tipToWrist < baseToWrist * 1.2, compared squared
curledCount(points) ==
    Cardinality({ i \in 1..4 :
        distance2DSq(points[graspChecks[i][1]], points[0]) * 100
          < distance2DSq(points[graspChecks[i][2]], points[0]) * 144 })

\* tipToWrist > pipToWrist * 1.1, compared squared
extendedCount(points) ==
    Cardinality({ i \in 1..4 :
        distance2DSq(points[openChecks[i][1]], points[0]) * 100
          > distance2DSq(points[openChecks[i][2]], points[0]) * 121 })

\* getPalmCenter: the average of the wrist and the four bases
palmCenter(points) ==
    << (points[0][1] + points[5][1] + points[9][1] + points[13][1]
          + points[17][1]) \div 5,
       (points[0][2] + points[5][2] + points[9][2] + points[13][2]
          + points[17][2]) \div 5 >>

\* the landmark set of 21 points, as the readings the classifiers take;
\* waving is detectWave's verdict for the hand
Landmarks(points, waving) ==
    [ palm |-> palmCenter(points),
      curled |-> curledCount(points),
      extended |-> extendedCount(points),
      pinch |-> distance3D(points[4], points[8]),
      waving |-> waving ]

\* Synthetic hands.  The four fingers lie on rays from the wrist, given by
\* vectors of length 5 (index, middle, ring, pinky); a base is 0.075 from
\* the wrist, a pip 0.1, a tip at the distance given for its finger (a
\* multiple of 0.005), and the thumb tip at an offset from the index tip.
FingerRays == << << -3, 4 >>, << 0, 5 >>, << 3, 4 >>, << 4, 3 >> >>

OnRay(wrist, k, d) ==
    << wrist[1] + (d \div 5) * FingerRays[k][1],
       wrist[2] + (d \div 5) * FingerRays[k][2],
       wrist[3] >>

HandPoints(wrist, tips, thumbOffset) ==
    [ i \in LandmarkIndices |->
        CASE i = 0 -> wrist
          [] i = 4 -> << OnRay(wrist, 1, tips[1])[1] + thumbOffset[1],
                         OnRay(wrist, 1, tips[1])[2] + thumbOffset[2],
                         OnRay(wrist, 1, tips[1])[3] + thumbOffset[3] >>
          [] i \in {5, 9, 13, 17} -> OnRay(wrist, (i - 1) \div 4, 75)
          [] i \in {6, 10, 14, 18} -> OnRay(wrist, (i - 2) \div 4, 100)
          [] OTHER -> OnRay(wrist, (i \div 4) - 1, tips[(i \div 4) - 1]) ]

\* the same hand with thumb tip and index tip exchanged
SwapThumbIndex(points) ==
    [ i \in LandmarkIndices |->
        IF i = 4 THEN points[8] ELSE IF i = 8 THEN points[4] ELSE points[i] ]

----------------------------------------------------------------------------
\* tracker results (second half of earth.js)

Labels == { "Left", "Right" }

\* what the tracker can deliver: no hand, one hand under either label, or two
\* hands under distinct labels
HandResults ==
    { << >> }
    \cup { << [label |-> l, landmarks |-> p] >> : l \in Labels, p \in Poses }
    \cup { << [label |-> "Left", landmarks |-> p], [label |-> "Right", landmarks |-> q] >> :
              p \in Poses, q \in Poses }

\* one tracker result of each kind the lifecycle distinguishes: no hand, one
\* hand (under either label), two clasped fists, two hands apart
LifecycleResults ==
    { << >>,
      << [label |-> "Left", landmarks |-> FistLeft] >>,
      << [label |-> "Right", landmarks |-> OpenFar] >>,
      << [label |-> "Left", landmarks |-> FistLeft],
         [label |-> "Right", landmarks |-> FistRight] >>,
      << [label |-> "Left", landmarks |-> FistLeft],
         [label |-> "Right", landmarks |-> OpenFar] >> }

\* tracker results that exercise the routing of gestures: no hand; a left
\* fist alone; a right open waving hand alone; a right pinching hand alone;
\* a left fist with an idle right hand; a left fist with a right open waving
\* hand; two clasped fists.  (The tracker's label is the mirror image of the
\* hand: getHands inverts it.)
RoutingResults ==
    { << >>,
      << [label |-> "Right", landmarks |-> FistLeft] >>,
      << [label |-> "Left", landmarks |-> OpenWave] >>,
      << [label |-> "Left", landmarks |-> PinchFar] >>,
      << [label |-> "Left", landmarks |-> PinchFar],
         [label |-> "Right", landmarks |-> FistLeft] >>,
      << [label |-> "Left", landmarks |-> OpenWave],
         [label |-> "Right", landmarks |-> FistLeft] >>,
      << [label |-> "Left", landmarks |-> FistRight],
         [label |-> "Right", landmarks |-> FistLeft] >> }

\* tracker results that exercise the pinch zoom: no hand, and one hand
\* pinching at either of two distances
ZoomResults ==
    { << >>,
      << [label |-> "Left", landmarks |-> PinchFar] >>,
      << [label |-> "Left", landmarks |-> PinchNear] >> }

\* tracker results that carry a pinch across a spawn and a merge, in the
\* order the tracker delivers them: no hand; one hand pinching at 0.04; that
\* hand with the other hand present; one hand pinching at 0.02; one hand
\* that does not pinch
PinchScript ==
    << << >>,
       << [label |-> "Left", landmarks |-> PinchFar] >>,
       << [label |-> "Left", landmarks |-> PinchFar],
          [label |-> "Right", landmarks |-> FistLeft] >>,
       << [label |-> "Left", landmarks |-> PinchNear] >>,
       << [label |-> "Right", landmarks |-> FistLeft] >> >>

\* faulty variant: the tracker's label is used as it is
getHands_NoMirror(results) ==
    [ i \in 1..Len(results) |->
        [ landmarks  |-> results[i].landmarks,
          handedness |-> results[i].label ] ]

getHands(results) ==
    [ i \in 1..Len(results) |->
        [ landmarks  |-> results[i].landmarks,
          handedness |-> IF results[i].label = "Left" THEN "Right" ELSE "Left" ] ]

getHand(results, handType) ==
    LET allHands == getHands(results)
        found == { i \in 1..Len(allHands) : allHands[i].handedness = handType }
    IN  IF found = {} THEN NULL
        ELSE allHands[CHOOSE i \in found : \A j \in found : i <= j].landmarks

\* tracker results that exercise the histories: no hand; the user's left
\* hand alone, at either of two places; both hands
HistoryResults ==
    { << >>,
      << [label |-> "Right", landmarks |-> FistLeft] >>,
      << [label |-> "Right", landmarks |-> OpenFar] >>,
      << [label |-> "Right", landmarks |-> FistLeft],
         [label |-> "Left", landmarks |-> FistRight] >> }

\* the hand processGestures hands to getGestureState for a history
handOf(results, handType) ==
    getHand(results, IF handType = "left" THEN "Left" ELSE "Right")

\* the histories after the two detectWave calls getGestureState makes in a
\* frame, on the hands of the latest tracker result
frameHistories(histories, results) ==
    [ handType \in HandTypes |->
        detectWave(histories[handType], handOf(results, handType)).history ]

----------------------------------------------------------------------------
\* earth.js : dual-Earth lifecycle
\*
\* The operators below take and return the module state of earth.js as one
\* record, so that a handler that calls several of them in sequence is the
\* composition of their effects.

Earth ==
    [ earthGroup  |-> earthGroup,
      leftEarth   |-> leftEarth,
      rightEarth  |-> rightEarth,
      isDualMode  |-> isDualMode,
      isMerging   |-> isMerging,
      earthScale  |-> earthScale,
      targetScale |-> targetScale,
      scene       |-> scene,
      rafQueue    |-> rafQueue ]

SetEarth(e) ==
    /\ earthGroup' = e.earthGroup
    /\ leftEarth' = e.leftEarth
    /\ rightEarth' = e.rightEarth
    /\ isDualMode' = e.isDualMode
    /\ isMerging' = e.isMerging
    /\ earthScale' = e.earthScale
    /\ targetScale' = e.targetScale
    /\ scene' = e.scene
    /\ rafQueue' = e.rafQueue

getEarthMode(e) ==
    IF e.isMerging THEN "MERGING"
    ELSE IF e.isDualMode THEN "DUAL"
    ELSE "SINGLE"

isDualEarthMode(e) == e.isDualMode

\* createEarthInstance followed by position.set / scale.setScalar
createEarthInstance(x, s) == [x |-> x, scale |-> s]

sceneAdd(sc, name) == [sc EXCEPT ![name] = @ + 1]

sceneRemove(sc, name) == [sc EXCEPT ![name] = Max(0, @ - 1)]

\* faulty variant: the primary object stays visible
spawnDualEarths_NoHide(e) ==
    IF e.isDualMode THEN e
    ELSE [ e EXCEPT
             !.isDualMode = TRUE,
             !.leftEarth = createEarthInstance(-1200, 700),
             !.rightEarth = createEarthInstance(1200, 700),
             !.scene = sceneAdd(sceneAdd(@, "leftEarth"), "rightEarth") ]

\* faulty variant: the early return on isDualMode is missing
spawnDualEarths_NoGuard(e) ==
    [ e EXCEPT
        !.isDualMode = TRUE,
        !.earthGroup = [@ EXCEPT !.visible = FALSE],
        !.leftEarth = createEarthInstance(-1200, 700),
        !.rightEarth = createEarthInstance(1200, 700),
        !.scene = sceneAdd(sceneAdd(@, "leftEarth"), "rightEarth") ]

spawnDualEarths(e) ==
    IF e.isDualMode THEN e
    ELSE [ e EXCEPT
             !.isDualMode = TRUE,
             !.earthGroup = [@ EXCEPT !.visible = FALSE],
             !.leftEarth = createEarthInstance(-1200, 700),
             !.rightEarth = createEarthInstance(1200, 700),
             !.scene = sceneAdd(sceneAdd(@, "leftEarth"), "rightEarth") ]

\* duration of the merge animation, milliseconds
duration == 1000

\* faulty variant: the guard tests isMerging only
mergeEarths_NoDualCheck(e) ==
    IF e.isMerging THEN e
    ELSE [ e EXCEPT
             !.isMerging = TRUE,
             !.rafQueue = Append(@, [elapsed |-> 0]) ]

\* faulty variant: the guard tests isDualMode only
mergeEarths_Reentrant(e) ==
    IF ~e.isDualMode THEN e
    ELSE [ e EXCEPT
             !.isMerging = TRUE,
             !.rafQueue = Append(@, [elapsed |-> 0]) ]

\* mergeEarths up to the first requestAnimationFrame(mergeAnimation): the
\* new closure captures startTime = Date.now(), an elapsed time of 0
mergeEarths(e) ==
    IF ~e.isDualMode \/ e.isMerging THEN e
    ELSE [ e EXCEPT
             !.isMerging = TRUE,
             !.rafQueue = Append(@, [elapsed |-> 0]) ]

\* progress = Math.min(elapsed / duration, 1), in thousandths (truncated)
mergeProgress(elapsed) == Min((elapsed * 1000) \div duration, 1000)

\* faulty variant: the easing is quadratic
easeOutCubic_Quadratic(progress) ==
    LET q == 1000 - progress
    IN  1000 - ((q * q) \div 1000)

\* eased = 1 - (1 - progress)^3, in thousandths (the cube truncated)
easeOutCubic(progress) ==
    LET q == 1000 - progress
    IN  1000 - ((q * q * q) \div 1000000)

\* faulty variant: the closure does not request another frame
continueMerge_NoRequest(e, c) == [ e EXCEPT !.rafQueue = Tail(@) ]

\* the branch progress < 1: the closure c, which has just run as the head of
\* the queue, requests another frame
continueMerge(e, c) == [ e EXCEPT !.rafQueue = Append(Tail(@), c) ]

\* faulty variant: the dual flag is not cleared
completeMerge_KeepDual(e) ==
    [ e EXCEPT
        !.scene =
            LET s1 == IF e.leftEarth # NULL
                      THEN sceneRemove(@, "leftEarth") ELSE @
            IN  IF e.rightEarth # NULL
                THEN sceneRemove(s1, "rightEarth") ELSE s1,
        !.leftEarth = NULL,
        !.rightEarth = NULL,
        !.earthGroup = [visible |-> TRUE, scale |-> 1000],
        !.isMerging = FALSE,
        !.rafQueue = Tail(@) ]

\* faulty variant: the primary object's scale is not restored
completeMerge_NoScale(e) ==
    [ e EXCEPT
        !.scene =
            LET s1 == IF e.leftEarth # NULL
                      THEN sceneRemove(@, "leftEarth") ELSE @
            IN  IF e.rightEarth # NULL
                THEN sceneRemove(s1, "rightEarth") ELSE s1,
        !.leftEarth = NULL,
        !.rightEarth = NULL,
        !.earthGroup = [@ EXCEPT !.visible = TRUE],
        !.isDualMode = FALSE,
        !.isMerging = FALSE,
        !.rafQueue = Tail(@) ]

\* the branch progress = 1 ("Complete merge")
completeMerge(e) ==
    [ e EXCEPT
        !.scene =
            LET s1 == IF e.leftEarth # NULL
                      THEN sceneRemove(@, "leftEarth") ELSE @
            IN  IF e.rightEarth # NULL
                THEN sceneRemove(s1, "rightEarth") ELSE s1,
        !.leftEarth = NULL,
        !.rightEarth = NULL,
        !.earthGroup = [visible |-> TRUE, scale |-> 1000],
        !.isDualMode = FALSE,
        !.isMerging = FALSE,
        !.rafQueue = Tail(@) ]

\* one run of the mergeAnimation closure c (the head of the queue)
mergeAnimation(e, c) ==
    LET elapsed == c.elapsed
        progress == mergeProgress(elapsed)
        eased == easeOutCubic(progress)
        scale == 700 + ((300 * eased) \div 1000)
        shrunk == (scale * (1000 - ((progress * 500) \div 1000))) \div 1000
        moved ==
            IF e.leftEarth # NULL /\ e.rightEarth # NULL
            THEN [ e EXCEPT
                     !.leftEarth = [x |-> -((1200 * (1000 - eased)) \div 1000),
                                    scale |-> shrunk],
                     !.rightEarth = [x |-> (1200 * (1000 - eased)) \div 1000,
                                     scale |-> shrunk] ]
            ELSE e
    IN  IF progress < 1000
        THEN continueMerge(moved, c)
        ELSE completeMerge(moved)

\* the wheel listener: targetScale += deltaY * -0.001, clamped to [0.3, 2]
wheel(e, deltaY) ==
    [ e EXCEPT !.targetScale = Max(300, Min(2000, @ - deltaY)) ]

\* faulty variant: the target is not clamped
handlePinchZoom_NoClamp(e, pinchDistance, prevPinchDistance) ==
    IF prevPinchDistance > 0
    THEN [ e EXCEPT !.targetScale =
             @ + (pinchDistance - prevPinchDistance) * 5 ]
    ELSE e

\* handlePinchZoom: targetScale += (pinchDistance - prevPinchDistance) * 5,
\* clamped to [0.3, 2]
handlePinchZoom(e, pinchDistance, prevPinchDistance) ==
    IF prevPinchDistance > 0
    THEN [ e EXCEPT !.targetScale =
             Max(300, Min(2000, @ + (pinchDistance - prevPinchDistance) * 5)) ]
    ELSE e

\* updateEarth: smoothing of the scale and its application to the visible
\* primary object (the product by 0.1 truncated toward zero)
updateEarth(e) ==
    LET smoothed == e.earthScale + TruncDiv(e.targetScale - e.earthScale, 10)
        e1 == [e EXCEPT !.earthScale = smoothed]
    IN  IF e1.earthGroup.visible
        THEN [e1 EXCEPT !.earthGroup = [@ EXCEPT !.scale = smoothed]]
        ELSE e1

\* one write: what is done (op), to what (target) and on whose behalf (by:
\* a hand, both hands, or the frame itself)
Effect(op, target, by) == [op |-> op, target |-> target, by |-> by]

\* faulty variant: the secondary objects are updated without a test of the
\* mode or of the references
updateEarthEffects_Unguarded(e) ==
    ( IF e.earthGroup.visible
      THEN << Effect("rotation.y", "mainEarth", "frame"),
              Effect("updateParticles", "mainEarth", "frame") >>
      ELSE << >> )
    \o << Effect("rotation.y", "leftEarth", "frame"),
          Effect("updateParticles", "leftEarth", "frame"),
          Effect("rotation.y", "rightEarth", "frame"),
          Effect("updateParticles", "rightEarth", "frame") >>

\* updateEarth: the rotation and the updateParticles call of each object it
\* updates
updateEarthEffects(e) ==
    ( IF e.earthGroup.visible
      THEN << Effect("rotation.y", "mainEarth", "frame"),
              Effect("updateParticles", "mainEarth", "frame") >>
      ELSE << >> )
    \o ( IF e.isDualMode /\ ~e.isMerging /\ e.leftEarth # NULL
         THEN << Effect("rotation.y", "leftEarth", "frame"),
                 Effect("updateParticles", "leftEarth", "frame") >>
         ELSE << >> )
    \o ( IF e.isDualMode /\ ~e.isMerging /\ e.rightEarth # NULL
         THEN << Effect("rotation.y", "rightEarth", "frame"),
                 Effect("updateParticles", "rightEarth", "frame") >>
         ELSE << >> )

----------------------------------------------------------------------------
\* main.js : the frame step

\* frames of cooldown set at a spawn
SPAWN_COOLDOWN == 90

\* faulty variant: the spawn does not wait for the cooldown
shouldSpawn_NoCooldown(gestureState, e, cooldown) ==
    /\ gestureState.bothHands.detected
    /\ ~isDualEarthMode(e)

\* the spawn condition of processGestures
shouldSpawn(gestureState, e, cooldown) ==
    /\ gestureState.bothHands.detected
    /\ ~isDualEarthMode(e)
    /\ cooldown <= 0

\* faulty variant: the floor at 0 is missing
decrementCooldown_NoFloor(cooldown) == cooldown - 1

\* dualEarthCooldown = Math.max(0, dualEarthCooldown - 1)
decrementCooldown(cooldown) == Max(0, cooldown - 1)

\* faulty variant: the decrement is skipped in the frame that spawns
frameCooldown_NoDecrementOnSpawn(spawn, cooldown) ==
    IF spawn THEN SPAWN_COOLDOWN ELSE decrementCooldown(cooldown)

\* the cooldown after the spawn block and the decrement that follows it
frameCooldown(spawn, cooldown) ==
    decrementCooldown(IF spawn THEN SPAWN_COOLDOWN ELSE cooldown)

\* faulty variant: the cooldown test is strict
handLossMerge_Strict(gestureState, cooldown) ==
    /\ ~gestureState.bothHands.detected
    /\ (gestureState.left.detected \/ gestureState.right.detected)
    /\ cooldown < 0

\* the hand-loss merge condition of the dual branch
handLossMerge(gestureState, cooldown) ==
    /\ ~gestureState.bothHands.detected
    /\ (gestureState.left.detected \/ gestureState.right.detected)
    /\ cooldown <= 0

\* faulty variant: the clasped-hands merge sits inside the cooldown test
dualBranchMerges_ClaspGated(gestureState, e, cooldown) ==
    LET e3 == IF gestureState.bothHands.grasping /\ cooldown <= 0
              THEN mergeEarths(e) ELSE e
    IN  IF handLossMerge(gestureState, cooldown)
        THEN mergeEarths(e3) ELSE e3

\* the merge triggers of the dual branch, with the cooldown as decremented
\* earlier in the frame
dualBranchMerges(gestureState, e, cooldown) ==
    LET e3 == IF gestureState.bothHands.grasping
              THEN mergeEarths(e) ELSE e
    IN  IF handLossMerge(gestureState, cooldown)
        THEN mergeEarths(e3) ELSE e3

\* the writes of the single branch, all to the primary object
singleBranchEffects(gestureState, prevPinch) ==
    ( IF gestureState.left.grasping \/ gestureState.right.grasping
      THEN << Effect("convergeParticles", "mainEarth", "hands") >>
      ELSE << >> )
    \o ( IF gestureState.left.open \/ gestureState.right.open
         THEN << Effect("disperseParticles", "mainEarth", "hands") >>
         ELSE << >> )
    \o ( IF /\ \/ gestureState.left.pinch.isPinching
               \/ gestureState.right.pinch.isPinching
            /\ prevPinch > 0
         THEN << Effect("handlePinchZoom", "targetScale", "hands") >>
         ELSE << >> )
    \o ( IF gestureState.left.wave.isWaving
         THEN << Effect("handleWaveRotation", "earthRotation", "left") >>
         ELSE << >> )
    \o ( IF gestureState.right.wave.isWaving
         THEN << Effect("handleWaveRotation", "earthRotation", "right") >>
         ELSE << >> )

\* the writes one hand of the dual branch makes to the object named target
handEffects(hand, by, target, object) ==
    IF hand.detected /\ object # NULL
    THEN ( IF hand.grasping
           THEN << Effect("convergeParticles", target, by) >> ELSE << >> )
         \o ( IF hand.open
              THEN << Effect("disperseParticles", target, by) >> ELSE << >> )
         \o ( IF hand.wave.isWaving
              THEN << Effect("rotation.y", target, by) >> ELSE << >> )
    ELSE << >>

\* faulty variant: both hands act on the left object
dualBranchEffects_SameObject(gestureState, e, cooldown) ==
    handEffects(gestureState.left, "left", "leftEarth", e.leftEarth)
    \o handEffects(gestureState.right, "right", "leftEarth", e.leftEarth)
    \o ( IF gestureState.bothHands.grasping
         THEN << Effect("mergeEarths", "scene", "hands") >> ELSE << >> )
    \o ( IF handLossMerge(gestureState, cooldown)
         THEN << Effect("mergeEarths", "scene", "frame") >> ELSE << >> )

\* the writes of the dual branch: each hand's to its object, then the
\* mergeEarths calls
dualBranchEffects(gestureState, e, cooldown) ==
    handEffects(gestureState.left, "left", "leftEarth", e.leftEarth)
    \o handEffects(gestureState.right, "right", "rightEarth", e.rightEarth)
    \o ( IF gestureState.bothHands.grasping
         THEN << Effect("mergeEarths", "scene", "hands") >> ELSE << >> )
    \o ( IF handLossMerge(gestureState, cooldown)
         THEN << Effect("mergeEarths", "scene", "frame") >> ELSE << >> )

\* faulty variant: the stored distance is kept when no hand pinches
singleBranchPinch_NoReset(gestureState, e, prevPinch) ==
    IF gestureState.left.pinch.isPinching \/ gestureState.right.pinch.isPinching
    THEN LET currentPinch == IF gestureState.left.pinch.isPinching
                             THEN gestureState.left.pinch.distance
                             ELSE gestureState.right.pinch.distance
         IN  [ earth |-> IF prevPinch > 0
                         THEN handlePinchZoom(e, currentPinch, prevPinch)
                         ELSE e,
               pinch |-> currentPinch ]
    ELSE [earth |-> e, pinch |-> prevPinch]

\* the pinch zoom of the single branch: the new earth.js state and the new
\* previousPinchDistance
singleBranchPinch(gestureState, e, prevPinch) ==
    IF gestureState.left.pinch.isPinching \/ gestureState.right.pinch.isPinching
    THEN LET currentPinch == IF gestureState.left.pinch.isPinching
                             THEN gestureState.left.pinch.distance
                             ELSE gestureState.right.pinch.distance
         IN  [ earth |-> IF prevPinch > 0
                         THEN handlePinchZoom(e, currentPinch, prevPinch)
                         ELSE e,
               pinch |-> currentPinch ]
    ELSE [earth |-> e, pinch |-> 0]

\* faulty variant: starting a merge sets the cooldown again
processGestures_MergeResetsCooldown(results, e, cooldown, prevPinch) ==
    LET leftHand == getHand(results, "Left")
        rightHand == getHand(results, "Right")
        gestureState == getGestureState(leftHand, rightHand)
        spawn == shouldSpawn(gestureState, e, cooldown)
        e1 == IF spawn THEN spawnDualEarths(e) ELSE e
        spawnEffects == IF spawn
                        THEN << Effect("spawnDualEarths", "scene", "hands") >>
                        ELSE << >>
        cd == frameCooldown(spawn, cooldown)
        merged == dualBranchMerges(gestureState, e1, cd)
    IN  IF ~isDualEarthMode(e1)
        THEN LET single == singleBranchPinch(gestureState, e1, prevPinch)
             IN  [ earth |-> single.earth,
                   cooldown |-> cd,
                   pinch |-> single.pinch,
                   effects |-> spawnEffects
                               \o singleBranchEffects(gestureState, prevPinch) ]
        ELSE [ earth |-> merged,
               cooldown |-> IF merged.isMerging /\ ~e1.isMerging
                            THEN SPAWN_COOLDOWN ELSE cd,
               pinch |-> prevPinch,
               effects |-> spawnEffects
                           \o dualBranchEffects(gestureState, e1, cd) ]

\* faulty variant: the branch is chosen by the mode in which the frame began
processGestures_BranchOnEntry(results, e, cooldown, prevPinch) ==
    LET leftHand == getHand(results, "Left")
        rightHand == getHand(results, "Right")
        gestureState == getGestureState(leftHand, rightHand)
        spawn == shouldSpawn(gestureState, e, cooldown)
        e1 == IF spawn THEN spawnDualEarths(e) ELSE e
        spawnEffects == IF spawn
                        THEN << Effect("spawnDualEarths", "scene", "hands") >>
                        ELSE << >>
        cd == frameCooldown(spawn, cooldown)
    IN  IF ~isDualEarthMode(e)
        THEN LET single == singleBranchPinch(gestureState, e1, prevPinch)
             IN  [ earth |-> single.earth,
                   cooldown |-> cd,
                   pinch |-> single.pinch,
                   effects |-> spawnEffects
                               \o singleBranchEffects(gestureState, prevPinch) ]
        ELSE [ earth |-> dualBranchMerges(gestureState, e1, cd),
               cooldown |-> cd,
               pinch |-> prevPinch,
               effects |-> spawnEffects
                           \o dualBranchEffects(gestureState, e1, cd) ]

\* processGestures on the tracker results: the new earth.js state, the new
\* cooldown, the new previousPinchDistance and the writes made
processGestures(results, e, cooldown, prevPinch) ==
    LET leftHand == getHand(results, "Left")
        rightHand == getHand(results, "Right")
        gestureState == getGestureState(leftHand, rightHand)
        spawn == shouldSpawn(gestureState, e, cooldown)
        e1 == IF spawn THEN spawnDualEarths(e) ELSE e
        spawnEffects == IF spawn
                        THEN << Effect("spawnDualEarths", "scene", "hands") >>
                        ELSE << >>
        cd == frameCooldown(spawn, cooldown)
    IN  IF ~isDualEarthMode(e1)
        THEN LET single == singleBranchPinch(gestureState, e1, prevPinch)
             IN  [ earth |-> single.earth,
                   cooldown |-> cd,
                   pinch |-> single.pinch,
                   effects |-> spawnEffects
                               \o singleBranchEffects(gestureState, prevPinch) ]
        ELSE [ earth |-> dualBranchMerges(gestureState, e1, cd),
               cooldown |-> cd,
               pinch |-> prevPinch,
               effects |-> spawnEffects
                           \o dualBranchEffects(gestureState, e1, cd) ]

----------------------------------------------------------------------------
\* earth.js : the particles of one object
\*
\* userData of an object: the dispersed flag, the dispersion amount (in
\* thousandths) and the two particle systems, the surface (earthParticles)
\* and the outer cloud (particles).  Of each system one particle is kept,
\* on a coordinate axis: the axis, and along it the live position, the
\* rest position and the velocity (the other two components are 0).
\* All of them, and the intensities, are thousandths; products are divided
\* back with truncation toward zero.

\* createEarthInstance: userData of a new object; the surface particle is
\* at EARTH_RADIUS (0.5), the outer one at 0.9, within PARTICLE_BASE_RADIUS
\* (0.7) + 0.4
RestBody ==
    [ dispersed |-> FALSE,
      dispersionAmount |-> 0,
      earthParticle |-> [axis |-> "x", position |-> 500, base |-> 500,
                         velocity |-> 0],
      outerParticle |-> [axis |-> "x", position |-> 900, base |-> 900,
                         velocity |-> 0] ]

\* velocities[i] += (x / len) * intensity * factor, if len > 0; factor is
\* 0.025 (25) for the surface and 0.03 (30) for the outer cloud
pushOutward(particle, intensity, factor) ==
    IF Abs(particle.position) > 0
    THEN [ particle EXCEPT
             !.velocity = @ + TruncDiv(Sign(particle.position) * intensity
                                         * factor, 1000) ]
    ELSE particle

disperseParticles(b, intensity) ==
    [ b EXCEPT
        !.dispersed = TRUE,
        !.dispersionAmount = Min(1000, @ + TruncDiv(intensity * 100, 1000)),
        !.earthParticle = pushOutward(@, intensity, 25),
        !.outerParticle = pushOutward(@, intensity, 30) ]

\* positions[i] += (basePositions[i] - positions[i]) * intensity * rate;
\* rate is 0.12 (120) for the surface and 0.1 (100) for the outer cloud
pullToRest(particle, intensity, rate) ==
    [ particle EXCEPT
        !.position =
           @ + TruncDiv(TruncDiv((particle.base - @) * intensity, 1000) * rate,
                        1000) ]

\* faulty variant: the amount is lowered without a floor
convergeParticles_NoFloor(b, intensity) ==
    LET amount == b.dispersionAmount - TruncDiv(intensity * 150, 1000)
    IN  [ b EXCEPT
            !.dispersionAmount = amount,
            !.earthParticle =
               [ pullToRest(@, intensity, 120) EXCEPT
                   !.velocity = TruncDiv(@ * 9, 10) ],
            !.outerParticle = pullToRest(@, intensity, 100),
            !.dispersed = IF amount <= 0 THEN FALSE ELSE @ ]

\* faulty variant: the particles are pulled to the center of the object
convergeParticles_ToCenter(b, intensity) ==
    LET amount == Max(0, b.dispersionAmount - TruncDiv(intensity * 150, 1000))
        toCenter(particle) == [particle EXCEPT !.base = 0]
        keepBase(particle, pulled) == [pulled EXCEPT !.base = particle.base]
    IN  [ b EXCEPT
            !.dispersionAmount = amount,
            !.earthParticle =
               [ keepBase(@, pullToRest(toCenter(@), intensity, 120)) EXCEPT
                   !.velocity = TruncDiv(@ * 9, 10) ],
            !.outerParticle =
               keepBase(@, pullToRest(toCenter(@), intensity, 100)),
            !.dispersed = IF amount <= 0 THEN FALSE ELSE @ ]

convergeParticles(b, intensity) ==
    LET amount == Max(0, b.dispersionAmount - TruncDiv(intensity * 150, 1000))
    IN  [ b EXCEPT
            !.dispersionAmount = amount,
            !.earthParticle =
               [ pullToRest(@, intensity, 120) EXCEPT
                   !.velocity = TruncDiv(@ * 9, 10) ],
            !.outerParticle = pullToRest(@, intensity, 100),
            !.dispersed = IF amount <= 0 THEN FALSE ELSE @ ]

\* positions[i] += velocities[i]; velocities[i] *= damping, for the three
\* components of the particle; damping is 0.97 (97) for the surface and
\* 0.98 (98) for the outer cloud
integrate(particle, damping) ==
    [ particle EXCEPT
        !.position = @ + particle.velocity,
        !.velocity = TruncDiv(@ * damping, 100) ]

\* faulty variant: the velocities are not damped
updateParticles_NoDamping(b) ==
    [ b EXCEPT
        !.earthParticle = integrate(@, 100),
        !.outerParticle = integrate(@, 100) ]

\* updateParticles: the integration step of both systems (the orbital
\* rotation of the outer cloud is left out)
updateParticles(b) ==
    [ b EXCEPT
        !.earthParticle = integrate(@, 97),
        !.outerParticle = integrate(@, 98) ]

\* velocities[i] of the particle: the x component of its velocity
xVelocity(particle) ==
    IF particle.axis = "x" THEN particle.velocity ELSE 0

\* Math.abs(velocities[i]) > 0.0001, read after the damping
hasMotion(particle) == 10 * Abs(xVelocity(particle)) > 1

\* the position buffers updateParticles flags (needsUpdate = true), given
\* the body it leaves
updateParticlesFlags(b) ==
    ( IF hasMotion(b.earthParticle)
      THEN << Effect("needsUpdate", "earthParticles", "frame") >>
      ELSE << >> )
    \o ( IF hasMotion(b.outerParticle)
         THEN << Effect("needsUpdate", "particles", "frame") >>
         ELSE << >> )

----------------------------------------------------------------------------
\* Initial state: after init() has run initEarth and before any frame

InitState ==
    /\ earthGroup = [visible |-> TRUE, scale |-> 1000]
    /\ leftEarth = NULL
    /\ rightEarth = NULL
    /\ isDualMode = FALSE
    /\ isMerging = FALSE
    /\ earthScale = 1000
    /\ targetScale = 1000
    /\ scene = [n \in {"mainEarth", "leftEarth", "rightEarth"} |->
                   IF n = "mainEarth" THEN 1 ELSE 0]
    /\ rafQueue = << >>
    /\ handHistory = [handType \in HandTypes |-> << >>]
    /\ dualEarthCooldown = 0
    /\ previousPinchDistance = 0
    /\ latestHandResults = << >>
    /\ lastOp = "init"
    /\ prevMode = "SINGLE"
    /\ framesSinceSpawn = -1
    /\ spawnGap = 0
    /\ effects = << >>
    /\ lastWave = [hand |-> "left", landmarks |-> NULL, result |-> NoWave]
    /\ equalRun = [handType \in HandTypes |-> 0]
    /\ convergeRun = 0
    /\ capture = [age |-> 0, read |-> FALSE]

\* no classifier is being applied on its own
NoProbe == [input |-> [kind |-> "none"], output |-> NULL]

Init == InitState /\ probe = NoProbe /\ body = RestBody

\* a body whose particles are away from their rest positions by the offset
DisplacedBody(offset) ==
    [ RestBody EXCEPT
        !.earthParticle = [@ EXCEPT !.position = @ + offset],
        !.outerParticle = [@ EXCEPT !.position = @ + offset] ]

\* the body is at rest, or its particles are 0.05 off their rest positions
InitBody ==
    /\ InitState
    /\ probe = NoProbe
    /\ body \in { RestBody, DisplacedBody(50) }

\* a body at rest whose particles lie on the axis
BodyOnAxis(axis) ==
    [ RestBody EXCEPT
        !.earthParticle = [@ EXCEPT !.axis = axis],
        !.outerParticle = [@ EXCEPT !.axis = axis] ]

\* a new object, its particles on the x axis or on the y axis (the z axis
\* is read as the y axis is)
InitParticles ==
    /\ InitState
    /\ probe = NoProbe
    /\ body \in { BodyOnAxis(axis) : axis \in {"x", "y"} }

\* the thumb tip relative to the index tip: at the same place, 0.05 and
\* almost 0.06 away, exactly 0.06 away in one, two and three dimensions and
\* in depth only, and further away
ThumbOffsets ==
    { << 0, 0, 0 >>, << 40, 0, 30 >>, << 35, 48, 0 >>, << 59, 0, 0 >>,
      << 60, 0, 0 >>, << 36, 48, 0 >>, << 40, 40, 20 >>, << 0, 0, -60 >>,
      << 0, 0, 59 >>, << 61, 0, 0 >>, << 0, 90, 0 >> }

PinchInputs ==
    { [ kind |-> "pinch",
        points |-> HandPoints(<< 400, 500, 0 >>, << 150, 150, 150, 150 >>,
                              thumbOffset) ] :
        thumbOffset \in ThumbOffsets }

\* where a finger tip can be, as its distance from the wrist: nearer than
\* the base (0.075), beyond the base but within 1.2 times its distance,
\* beyond that but within 1.1 times the distance of the pip (0.1), beyond
\* that, and at twice the distance of the base
TipDistances == {60, 85, 100, 115, 150}

HandInputs ==
    { [ kind |-> "hand",
        points |-> HandPoints(<< 400, 500, 0 >>, tips, << 60, 0, 0 >>) ] :
        tips \in [1..4 -> TipDistances] }

\* the hands of a pair: a fist, an open hand, a hand that is neither, such
\* a hand pinching, and such a hand waving
HandShapes ==
    { [tips |-> << 60, 60, 60, 60 >>, thumb |-> << 0, 90, 0 >>,
       waving |-> FALSE],
      [tips |-> << 150, 150, 150, 150 >>, thumb |-> << 0, 90, 0 >>,
       waving |-> FALSE],
      [tips |-> << 100, 100, 100, 100 >>, thumb |-> << 0, 90, 0 >>,
       waving |-> FALSE],
      [tips |-> << 100, 100, 100, 100 >>, thumb |-> << 40, 0, 30 >>,
       waving |-> FALSE],
      [tips |-> << 100, 100, 100, 100 >>, thumb |-> << 0, 90, 0 >>,
       waving |-> TRUE] }

\* how far the right hand is from the left one
PairDistances == {0, 100, 130, 160, 290, 320, 350}

ShapedHand(shape, x) ==
    Landmarks(HandPoints(<< x, 500, 0 >>, shape.tips, shape.thumb),
              shape.waving)

\* the previous gesture state: none yet, one with a hand absent, one with
\* both hands at a distance
PreviousStates ==
    { EmptyState,
      [handsDistance |-> 0, bothHands |-> [detected |-> FALSE]] }
    \cup { [handsDistance |-> d, bothHands |-> [detected |-> TRUE]] :
              d \in PairDistances }

PairInputs ==
    { [ kind |-> "pair", left |-> l, right |-> r, previousState |-> ps ] :
        l \in {NULL} \cup { ShapedHand(shape, 300) : shape \in HandShapes },
        r \in {NULL} \cup { ShapedHand(shape, 300 + d) :
                                shape \in HandShapes, d \in PairDistances },
        ps \in PreviousStates }

GestureInputs == PinchInputs \cup HandInputs \cup PairInputs

\* the classifiers of gestures.js are given one input of the set
InitGesture ==
    /\ InitState
    /\ \E input \in GestureInputs : probe = [input |-> input, output |-> NULL]
    /\ body = RestBody

----------------------------------------------------------------------------
\* Actions

\* the bookkeeping of a step that is not a frame and makes the writes made
DidWith(op, made) ==
    /\ lastOp' = op
    /\ prevMode' = getEarthMode(Earth)
    /\ effects' = made
    /\ UNCHANGED << framesSinceSpawn, spawnGap, lastWave, equalRun, probe,
                    body, convergeRun, capture >>

Did(op) == DidWith(op, << >>)

\* the bookkeeping of a frame; spawned tells whether the frame has spawned
DidFrame(spawned, made) ==
    /\ lastOp' = "animate"
    /\ prevMode' = getEarthMode(Earth)
    /\ effects' = made
    /\ framesSinceSpawn' =
         IF spawned THEN 0
         ELSE IF framesSinceSpawn < 0 THEN -1
         ELSE Min(framesSinceSpawn + 1, FrameCap)
    /\ spawnGap' =
         IF spawned /\ framesSinceSpawn >= 0
         THEN Min(framesSinceSpawn + 1, FrameCap)
         ELSE spawnGap
    /\ UNCHANGED << lastWave, equalRun, probe, body, convergeRun,
                    capture >>

\* the wall clock advances by one quantum
Tick ==
    /\ \A handType \in HandTypes :
         \A i \in 1..Len(handHistory[handType]) :
            handHistory[handType][i].age < MaxSampleAge
    /\ handHistory' =
         [ handType \in HandTypes |->
             [ i \in 1..Len(handHistory[handType]) |->
                 [handHistory[handType][i] EXCEPT !.age = @ + TickMs] ] ]
    /\ rafQueue' = [ i \in 1..Len(rafQueue) |->
                       IF rafQueue[i].elapsed < duration
                       THEN [rafQueue[i] EXCEPT !.elapsed = @ + TickMs]
                       ELSE rafQueue[i] ]
    /\ Did("tick")
    /\ UNCHANGED << earthGroup, leftEarth, rightEarth, isDualMode, isMerging,
                    earthScale, targetScale, scene,
                    dualEarthCooldown, previousPinchDistance,
                    latestHandResults >>

\* hands.onResults: the tracker delivers a result, one of resultSet
OnResultsFrom(resultSet) ==
    /\ \E results \in resultSet : latestHandResults' = results
    /\ Did("onResults")
    /\ UNCHANGED << earthGroup, leftEarth, rightEarth, isDualMode, isMerging,
                    earthScale, targetScale, scene, rafQueue, handHistory,
                    dualEarthCooldown, previousPinchDistance >>

OnHandResults == OnResultsFrom(HandResults)

OnLifecycleResults == OnResultsFrom(LifecycleResults)

OnRoutingResults == OnResultsFrom(RoutingResults)

OnZoomResults == OnResultsFrom(ZoomResults)

\* hands.onResults: the tracker delivers a later result of PinchScript
OnPinchResults ==
    /\ \E i, j \in 1..Len(PinchScript) :
         /\ i < j
         /\ latestHandResults = PinchScript[i]
         /\ latestHandResults' = PinchScript[j]
    /\ Did("onResults")
    /\ UNCHANGED << earthGroup, leftEarth, rightEarth, isDualMode, isMerging,
                    earthScale, targetScale, scene, rafQueue, handHistory,
                    dualEarthCooldown, previousPinchDistance >>

\* animate: one frame (processGestures, then updateEarth)
Animate ==
    /\ LET r == processGestures(latestHandResults, Earth, dualEarthCooldown,
                                previousPinchDistance)
       IN  /\ SetEarth(updateEarth(r.earth))
           /\ dualEarthCooldown' = r.cooldown
           /\ previousPinchDistance' = r.pinch
           /\ DidFrame(~isDualEarthMode(Earth) /\ isDualEarthMode(r.earth),
                       r.effects \o updateEarthEffects(r.earth))
    \* the frame takes the result of detectWave from the landmark record
    \* (see the landmark sets); DetectWaveCall is detectWave itself
    /\ UNCHANGED << latestHandResults, handHistory >>

\* the browser runs the pending mergeAnimation callback
MergeAnimationStep ==
    /\ rafQueue # << >>
    /\ SetEarth(mergeAnimation(Earth, Head(rafQueue)))
    /\ Did("mergeAnimation")
    /\ UNCHANGED << handHistory, dualEarthCooldown, previousPinchDistance,
                    latestHandResults >>

\* direct calls of the exported operations of earth.js
SpawnCall ==
    /\ SetEarth(spawnDualEarths(Earth))
    /\ Did("spawnDualEarths")
    /\ UNCHANGED << handHistory, dualEarthCooldown, previousPinchDistance,
                    latestHandResults >>

MergeCall ==
    /\ SetEarth(mergeEarths(Earth))
    /\ Did("mergeEarths")
    /\ UNCHANGED << handHistory, dualEarthCooldown, previousPinchDistance,
                    latestHandResults >>

UpdateEarthCall ==
    /\ SetEarth(updateEarth(Earth))
    /\ DidWith("updateEarth", updateEarthEffects(Earth))
    /\ UNCHANGED << handHistory, dualEarthCooldown, previousPinchDistance,
                    latestHandResults >>

\* detectWave(landmarks, handType)
DetectWaveCall ==
    /\ \E input \in WaveInputs :
         LET handType == input[1]
             landmarks == input[2]
             r == detectWave(handHistory[handType], landmarks)
         IN  /\ handHistory' = [handHistory EXCEPT ![handType] = r.history]
             /\ lastWave' = [hand |-> handType, landmarks |-> landmarks,
                             result |-> r.wave]
             /\ equalRun' =
                  IF landmarks = NULL THEN equalRun
                  ELSE [ equalRun EXCEPT ![handType] =
                           IF /\ handHistory[handType] # << >>
                              /\ handHistory[handType]
                                    [Len(handHistory[handType])].x
                                 = getPalmCenter(landmarks)[1]
                           THEN Min(@ + 1, RunCap)
                           ELSE 1 ]
    /\ lastOp' = "detectWave"
    /\ prevMode' = getEarthMode(Earth)
    /\ effects' = << >>
    /\ UNCHANGED << earthGroup, leftEarth, rightEarth, isDualMode, isMerging,
                    earthScale, targetScale, scene, rafQueue,
                    dualEarthCooldown, previousPinchDistance,
                    latestHandResults, framesSinceSpawn, spawnGap, probe,
                    body, convergeRun, capture >>

\* a classifier is applied to the input: op names it, output is what it
\* returns; nothing else changes
Applied(op, output) ==
    /\ probe.output = NULL
    /\ probe' = [probe EXCEPT !.output = output]
    /\ lastOp' = op
    /\ prevMode' = getEarthMode(Earth)
    /\ effects' = << >>
    /\ UNCHANGED << progVars, framesSinceSpawn, spawnGap, lastWave,
                    equalRun, body, convergeRun, capture >>

\* detectPinch(landmarks), and detectPinch of the same hand with thumb tip
\* and index tip exchanged
DetectPinchCall ==
    /\ probe.input.kind = "pinch"
    /\ Applied("detectPinch",
               [ result |-> detectPinch(Landmarks(probe.input.points, FALSE)),
                 swapped |-> detectPinch(
                     Landmarks(SwapThumbIndex(probe.input.points), FALSE)) ])

\* isGrasping(landmarks) and isOpenHand(landmarks)
HandShapeCall ==
    /\ probe.input.kind = "hand"
    /\ Applied("isGrasping",
               [ grasping |-> isGrasping(Landmarks(probe.input.points, FALSE)),
                 open |-> isOpenHand(Landmarks(probe.input.points, FALSE)) ])

\* getGestureState(leftLandmarks, rightLandmarks, previousState), and
\* getGestureName of the state it returns
GetGestureStateCall ==
    /\ probe.input.kind = "pair"
    /\ LET state == getFullGestureState(probe.input.left, probe.input.right,
                                        probe.input.previousState)
       IN  Applied("getGestureState",
                   [state |-> state, name |-> getGestureName(state)])

WheelDeltas == { -1000 }

\* the intensities of the calls: the frame step disperses by 0.5; in full
DisperseIntensities == {500, 1000}

ConvergeIntensities == {1000}

\* a step on the body: op names it, changed is the body it leaves, made
\* the position buffers it flags for upload and run the new count of
\* converging frames
BodyStep(op, changed, made, run) ==
    /\ body' = changed
    /\ lastOp' = op
    /\ prevMode' = getEarthMode(Earth)
    /\ effects' = made
    /\ convergeRun' = run
    /\ UNCHANGED << progVars, framesSinceSpawn, spawnGap, lastWave,
                    equalRun, probe, capture >>

\* a direct call on the body
BodyCall(op, changed) == BodyStep(op, changed, << >>, convergeRun)

\* disperseParticles(earth, intensity)
DisperseCall ==
    /\ Abs(body.outerParticle.velocity) < MaxVelocity
    /\ \E intensity \in DisperseIntensities :
         BodyCall("disperseParticles", disperseParticles(body, intensity))

\* convergeParticles(earth, intensity)
ConvergeCall ==
    \E intensity \in ConvergeIntensities :
        BodyCall("convergeParticles", convergeParticles(body, intensity))

\* a run of converging frames has begun and is not yet ConvergeFrames long
InRun == 0 < convergeRun /\ convergeRun < ConvergeFrames

\* the body may be moved further from rest: no run of converging frames is
\* under way and the outer particle is within MaxDrift of its rest position
MayDrift ==
    /\ ~InRun
    /\ Abs(body.outerParticle.position - body.outerParticle.base) < MaxDrift

\* a step of the frames over the histories: op names it; the earth.js
\* state, the cooldown and the pinch distance are left alone
HistoryStep(op) ==
    /\ lastOp' = op
    /\ prevMode' = getEarthMode(Earth)
    /\ effects' = << >>
    /\ UNCHANGED << earthGroup, leftEarth, rightEarth, isDualMode, isMerging,
                    earthScale, targetScale, scene, rafQueue,
                    dualEarthCooldown, previousPinchDistance,
                    framesSinceSpawn, spawnGap, lastWave, equalRun, probe,
                    body, convergeRun >>

\* hands.onResults: the tracker delivers a result of HistoryResults, which
\* it has just captured
OnCapturedResults ==
    /\ \E results \in HistoryResults : latestHandResults' = results
    /\ capture' = [age |-> 0, read |-> FALSE]
    /\ handHistory' = handHistory
    /\ HistoryStep("onResults")

\* the getGestureState call of a frame (processGestures), as far as the
\* histories go: detectWave on each hand of the latest tracker result
GestureStateFrame ==
    /\ handHistory' = frameHistories(handHistory, latestHandResults)
    /\ capture' = [capture EXCEPT !.read = TRUE]
    /\ latestHandResults' = latestHandResults
    /\ HistoryStep("getGestureState")

\* the wall clock advances by one quantum: the samples and the tracker
\* result get older
CaptureTick ==
    /\ \A handType \in HandTypes :
         \A i \in 1..Len(handHistory[handType]) :
            handHistory[handType][i].age < MaxSampleAge
    /\ capture.age < MaxSampleAge
    /\ handHistory' =
         [ handType \in HandTypes |->
             [ i \in 1..Len(handHistory[handType]) |->
                 [handHistory[handType][i] EXCEPT !.age = @ + TickMs] ] ]
    /\ capture' = [capture EXCEPT !.age = @ + TickMs]
    /\ latestHandResults' = latestHandResults
    /\ HistoryStep("tick")

\* updateParticles(earth, deltaTime), as updateEarth calls it in a frame
\* without a gesture
UpdateParticlesCall ==
    /\ MayDrift
    /\ LET b == updateParticles(body)
       IN  BodyStep("updateParticles", b, updateParticlesFlags(b), 0)

\* a frame with an open hand: disperseParticles(earth, 0.5), then the
\* integration step of updateEarth
DisperseFrame ==
    /\ MayDrift
    /\ Abs(body.outerParticle.velocity) < FrameMaxVelocity
    /\ LET b == updateParticles(disperseParticles(body, 500))
       IN  BodyStep("disperseFrame", b, updateParticlesFlags(b), 0)

\* a frame with a fist: convergeParticles(earth, 0.8), then the integration
\* step of updateEarth
ConvergeFrame ==
    LET b == updateParticles(convergeParticles(body, 800))
    IN  BodyStep("convergeFrame", b, updateParticlesFlags(b),
                 Min(convergeRun + 1, ConvergeFrames))

\* the wheel listener of the canvas, for a deltaY of the set
WheelFrom(deltas) ==
    /\ \E deltaY \in deltas : SetEarth(wheel(Earth, deltaY))
    /\ Did("wheel")
    /\ UNCHANGED << handHistory, dualEarthCooldown, previousPinchDistance,
                    latestHandResults >>

Wheel == WheelFrom(WheelDeltas)

\* the wheel turned either way
ZoomWheelDeltas == { -1000, 1000 }

ZoomWheel == WheelFrom(ZoomWheelDeltas)

\* direct calls of handlePinchZoom: << pinchDistance, prevPinchDistance >>,
\* among them the distance 1 that detectPinch reports for an absent hand
PinchZoomArgs == { << 1000, 40 >>, << 40, 1000 >>, << 40, 0 >> }

PinchZoomCall ==
    /\ \E args \in PinchZoomArgs :
         SetEarth(handlePinchZoom(Earth, args[1], args[2]))
    /\ Did("handlePinchZoom")
    /\ UNCHANGED << handHistory, dualEarthCooldown, previousPinchDistance,
                    latestHandResults >>

----------------------------------------------------------------------------
\* Specifications

\* the running application: tracker results, frames, merge callbacks, clock
Next ==
    \/ OnHandResults
    \/ Animate
    \/ MergeAnimationStep
    \/ Tick

Spec == Init /\ [][Next]_vars

\* the application under a browser that keeps running pending animation
\* callbacks and a wall clock that keeps advancing; the tracker delivers
\* results of LifecycleResults
LiveNext ==
    \/ OnLifecycleResults
    \/ Animate
    \/ MergeAnimationStep
    \/ Tick

LiveSpec ==
    Init /\ [][LiveNext]_vars /\ WF_vars(MergeAnimationStep) /\ WF_vars(Tick)

\* the frame step under tracker results that carry every routed gesture
NextFrame ==
    \/ OnRoutingResults
    \/ Animate
    \/ MergeAnimationStep
    \/ Tick

SpecFrame == Init /\ [][NextFrame]_vars

\* the lifecycle controller of earth.js under arbitrary sequences of calls
NextEarth ==
    \/ SpawnCall
    \/ MergeCall
    \/ MergeAnimationStep
    \/ UpdateEarthCall
    \/ Wheel
    \/ Tick

SpecEarth == Init /\ [][NextEarth]_vars

\* the zoom: pinching hands in frames, the wheel, direct pinch-zoom calls
NextZoom ==
    \/ OnZoomResults
    \/ Animate
    \/ ZoomWheel
    \/ PinchZoomCall

SpecZoom == Init /\ [][NextZoom]_vars

\* the pinch across a spawn and a merge: the tracker results of PinchScript
\* in their order, each for any number of frames, merge callbacks, clock
NextPinch ==
    \/ OnPinchResults
    \/ Animate
    \/ MergeAnimationStep
    \/ Tick

SpecPinch == Init /\ [][NextPinch]_vars

\* the particles of one object under arbitrary disperse and converge calls
NextBody ==
    \/ DisperseCall
    \/ ConvergeCall

SpecBody == InitBody /\ [][NextBody]_vars

\* the particles of one object under frames that disperse, converge or only
\* integrate
NextParticles ==
    \/ UpdateParticlesCall
    \/ DisperseFrame
    \/ ConvergeFrame

SpecParticles == InitParticles /\ [][NextParticles]_vars

\* the histories under tracker results, frames and a running clock
NextHistory ==
    \/ OnCapturedResults
    \/ GestureStateFrame
    \/ CaptureTick

SpecHistory == Init /\ [][NextHistory]_vars

\* the wave detector of gestures.js under arbitrary calls and a running clock
NextWave ==
    \/ DetectWaveCall
    \/ Tick

SpecWave == Init /\ [][NextWave]_vars

\* the classifiers of gestures.js, each applied to the inputs of its kind
NextGesture ==
    \/ DetectPinchCall
    \/ HandShapeCall
    \/ GetGestureStateCall

SpecGesture == InitGesture /\ [][NextGesture]_vars

----------------------------------------------------------------------------
\* State functions used by the properties

\* the mode reported by getEarthMode
Mode == getEarthMode(Earth)

\* the gesture state processGestures computes from the tracker results
CurrentGestureState ==
    getGestureState(getHand(latestHandResults, "Left"),
                    getHand(latestHandResults, "Right"))

\* handsCount of processGestures
HandsCount ==
    (IF CurrentGestureState.left.detected THEN 1 ELSE 0)
    + (IF CurrentGestureState.right.detected THEN 1 ELSE 0)

\* secondary objects in the scene
SecondaryCount == scene["leftEarth"] + scene["rightEarth"]

----------------------------------------------------------------------------
\* Properties

\* C1: under any sequence of spawnDualEarths calls, mergeEarths calls and
\* mergeAnimation steps the reported mode changes only SINGLE -> DUAL (by a
\* spawn), DUAL -> MERGING (by a merge) and MERGING -> SINGLE (by the
\* animation step that completes the merge).
C1_ModeTransitions ==
    [][ Mode' # Mode =>
          \/ Mode = "SINGLE" /\ Mode' = "DUAL" /\ lastOp' = "spawnDualEarths"
          \/ Mode = "DUAL" /\ Mode' = "MERGING" /\ lastOp' = "mergeEarths"
          \/ Mode = "MERGING" /\ Mode' = "SINGLE" /\ lastOp' = "mergeAnimation"
      ]_vars

\* a full cycle has been run: the last step completed a merge
C1_Witness ==
    /\ lastOp = "mergeAnimation"
    /\ prevMode = "MERGING"
    /\ Mode = "SINGLE"
    /\ rafQueue = << >>

\* C2 (as claimed): a frame that begins in SINGLE with the cooldown <= 0 and
\* both hands detected ends in DUAL, with two secondary objects created and
\* the primary object hidden.
C2_SpawnFrameEndsDual ==
    [][ ( /\ lastOp' = "animate"
          /\ Mode = "SINGLE"
          /\ dualEarthCooldown <= 0
          /\ CurrentGestureState.bothHands.detected )
        => /\ Mode' = "DUAL"
           /\ SecondaryCount' = SecondaryCount + 2
           /\ leftEarth' # NULL /\ rightEarth' # NULL
           /\ ~earthGroup'.visible
      ]_vars

\* C3: a spawnDualEarths call in DUAL or MERGING changes nothing, and the
\* scene never holds a number of secondary objects other than 0 or 2.
C3_SpawnNoOp ==
    /\ [][ lastOp' = "spawnDualEarths" /\ Mode # "SINGLE"
           => UNCHANGED progVars ]_vars
    /\ [](SecondaryCount \in {0, 2})

\* a spawn was requested during a merge
C3_Witness ==
    /\ lastOp = "spawnDualEarths"
    /\ prevMode = "MERGING"
    /\ Mode = "MERGING"
    /\ SecondaryCount = 2

\* C4: a mergeEarths call in MERGING or in SINGLE changes nothing: no second
\* animation closure, no restart of the elapsed time of the running one.
C4_MergeNonReentrant ==
    [][ lastOp' = "mergeEarths" /\ Mode # "DUAL"
        => UNCHANGED progVars ]_vars

\* a merge was requested while one was in flight and its clock had advanced
C4_Witness ==
    /\ lastOp = "mergeEarths"
    /\ prevMode = "MERGING"
    /\ Len(rafQueue) = 1
    /\ rafQueue[1].elapsed > 0

\* the effects of merge completion
MergeCompleted ==
    /\ leftEarth = NULL
    /\ rightEarth = NULL
    /\ SecondaryCount = 0
    /\ earthGroup.visible
    /\ earthGroup.scale = 1000
    /\ Mode = "SINGLE"

\* none of the effects of merge completion
MergeInFlight ==
    /\ leftEarth # NULL
    /\ rightEarth # NULL
    /\ scene["leftEarth"] = 1
    /\ scene["rightEarth"] = 1
    /\ ~earthGroup.visible
    /\ Mode = "MERGING"

\* C5: the mergeAnimation step that runs with elapsed >= 1000 ms destroys
\* both secondary objects, shows the primary object at scale 1 and sets the
\* mode to SINGLE; until then (any earlier step, any state during the merge)
\* none of that has happened.
C5_MergeCompletion ==
    /\ [][ lastOp' = "mergeAnimation"
           => IF Head(rafQueue).elapsed >= duration
              THEN MergeCompleted'
              ELSE MergeInFlight' ]_vars
    /\ [](Mode = "MERGING" => MergeInFlight)

\* a merge has completed while the smoothed scale was away from 1
C5_Witness ==
    /\ lastOp = "mergeAnimation"
    /\ prevMode = "MERGING"
    /\ MergeCompleted
    /\ earthScale # 1000

\* C6: with pending animation callbacks run and the clock advancing, every
\* merge in flight completes.
C6_MergeCompletes == (Mode = "MERGING") ~> (Mode = "SINGLE")

\* a merge has completed with tracker results and frames in between
C6_Witness ==
    /\ lastOp = "mergeAnimation"
    /\ prevMode = "MERGING"
    /\ Mode = "SINGLE"
    /\ latestHandResults # << >>
    /\ dualEarthCooldown < SPAWN_COOLDOWN - 1

\* C7: a frame that begins in DUAL with pair grasping true starts a merge,
\* whatever the cooldown.
C7_ClaspedMerge ==
    [][ ( /\ lastOp' = "animate"
          /\ Mode = "DUAL"
          /\ CurrentGestureState.bothHands.grasping )
        => Mode' = "MERGING" ]_vars

\* a frame started a merge from DUAL on clasped hands with the cooldown running
C7_Witness ==
    /\ lastOp = "animate"
    /\ prevMode = "DUAL"
    /\ Mode = "MERGING"
    /\ CurrentGestureState.bothHands.grasping
    /\ dualEarthCooldown > 0

\* C8 (as claimed): a frame that begins in DUAL with the cooldown <= 0 and
\* fewer than two hands detected starts a merge.
C8_Original ==
    [][ ( /\ lastOp' = "animate"
          /\ Mode = "DUAL"
          /\ dualEarthCooldown <= 0
          /\ HandsCount < 2 )
        => Mode' = "MERGING" ]_vars

\* C8 (amended): a frame that begins in DUAL with the cooldown <= 0 and exactly
\* one hand detected starts a merge; a frame that begins in DUAL with no hand
\* detected leaves the mode DUAL, whatever the cooldown.
C8_HandLossMerge ==
    [][ ( /\ lastOp' = "animate"
          /\ Mode = "DUAL" )
        => /\ (dualEarthCooldown <= 0 /\ HandsCount = 1 => Mode' = "MERGING")
           /\ (HandsCount = 0 => Mode' = "DUAL") ]_vars

\* a frame started a merge from DUAL with one hand left and the cooldown over
C8_Witness ==
    /\ lastOp = "animate"
    /\ prevMode = "DUAL"
    /\ Mode = "MERGING"
    /\ HandsCount = 1
    /\ dualEarthCooldown = 0

\* C9: a frame in which the cooldown is positive lowers it by exactly 1, in
\* every mode, and the cooldown is always within 0..90.
C9_Cooldown ==
    /\ [][ lastOp' = "animate" /\ dualEarthCooldown > 0
           => dualEarthCooldown' = dualEarthCooldown - 1 ]_vars
    /\ [](dualEarthCooldown \in 0..SPAWN_COOLDOWN)

\* a frame has run during a merge with the cooldown still positive after it
C9_Witness ==
    /\ lastOp = "animate"
    /\ prevMode = "MERGING"
    /\ Mode = "MERGING"
    /\ dualEarthCooldown > 0

\* C10 (as claimed): the frame that spawns from SINGLE with cooldown 0 and
\* both hands detected leaves the cooldown at 90.
C10_Original ==
    [][ ( /\ lastOp' = "animate"
          /\ Mode = "SINGLE"
          /\ dualEarthCooldown = 0
          /\ CurrentGestureState.bothHands.detected )
        => dualEarthCooldown' = SPAWN_COOLDOWN ]_vars

\* C10 (amended): the frame that spawns from SINGLE with cooldown 0 and both
\* hands detected leaves the cooldown at 89: it is set to 90 and lowered by
\* the decrement of the same frame.
C10_SpawnCooldown ==
    [][ ( /\ lastOp' = "animate"
          /\ Mode = "SINGLE"
          /\ dualEarthCooldown = 0
          /\ CurrentGestureState.bothHands.detected )
        => dualEarthCooldown' = SPAWN_COOLDOWN - 1 ]_vars

\* the state right after the frame that spawned
C10_Witness ==
    /\ lastOp = "animate"
    /\ prevMode = "SINGLE"
    /\ SecondaryCount = 2
    /\ dualEarthCooldown = SPAWN_COOLDOWN - 1

\* C11 (as claimed): a merge caused by the loss of a hand does not begin
\* before the 90th frame after the frame that spawned.
C11_HandLossMergeAfter90 ==
    [][ ( /\ lastOp' = "animate"
          /\ Mode = "DUAL"
          /\ Mode' = "MERGING"
          /\ ~CurrentGestureState.bothHands.grasping )
        => /\ framesSinceSpawn >= 0
           /\ framesSinceSpawn + 1 >= SPAWN_COOLDOWN ]_vars

\* C12: a frame that spawns runs at least 90 frames after the frame that
\* spawned before it, whatever tracker results, merges and merge completions
\* came in between.
C12_SpawnSeparation ==
    [][ ( /\ lastOp' = "animate"
          /\ Mode = "SINGLE"
          /\ leftEarth' # NULL )
        => \/ framesSinceSpawn < 0
           \/ framesSinceSpawn + 1 >= SPAWN_COOLDOWN ]_vars

\* a frame has spawned for the second time, after a merge that completed
C12_Witness ==
    /\ lastOp = "animate"
    /\ prevMode = "SINGLE"
    /\ framesSinceSpawn = 0
    /\ spawnGap >= SPAWN_COOLDOWN
    /\ SecondaryCount = 2

\* the step of the frame's required order an effect belongs to: 3 (routing
\* of gestures), 4 (spawn and merge evaluation) or 5 (integration)
Phase(x) ==
    IF x.op \in {"spawnDualEarths", "mergeEarths"} THEN 4
    ELSE IF x.by = "frame" THEN 5
    ELSE 3

\* C13 (as claimed): within every frame the routing of gestures comes before
\* the spawn and merge evaluation, which comes before the integration of the
\* particles.
C13_FrameOrder ==
    lastOp = "animate"
    => \A i, j \in 1..Len(effects) :
          i < j => Phase(effects[i]) <= Phase(effects[j])

\* the number of updateParticles calls the last step made on an object
IntegrationsOf(target) ==
    Cardinality({ i \in 1..Len(effects) :
                    /\ effects[i].op = "updateParticles"
                    /\ effects[i].target = target })

\* C14 (as claimed): every frame integrates the particles of every live
\* object exactly once: of the primary object, hidden or not, and of each
\* secondary object, merging or not.
C14_IntegratedOnce ==
    lastOp = "animate"
    => /\ IntegrationsOf("mainEarth") = 1
       /\ leftEarth # NULL => IntegrationsOf("leftEarth") = 1
       /\ rightEarth # NULL => IntegrationsOf("rightEarth") = 1

\* the effects of a sequence that a gesture of a hand has caused on a target
GestureEffectsOn(made, targets) ==
    { i \in 1..Len(made) :
        /\ made[i].by # "frame"
        /\ made[i].op \notin {"spawnDualEarths", "mergeEarths"}
        /\ made[i].target \in targets }

HasEffect(made, op, target) ==
    \E i \in 1..Len(made) : made[i].op = op /\ made[i].target = target

\* C15 (as claimed): a frame that begins in SINGLE or in MERGING routes
\* grasp, open, pinch and wave to the primary object and applies no
\* converge, disperse or rotation to a secondary object.
C15_NonDualRouting ==
    [][ ( /\ lastOp' = "animate"
          /\ Mode # "DUAL" )
        => LET g == CurrentGestureState
           IN  /\ GestureEffectsOn(effects', {"leftEarth", "rightEarth"}) = {}
               /\ g.left.grasping \/ g.right.grasping
                    => HasEffect(effects', "convergeParticles", "mainEarth")
               /\ g.left.open \/ g.right.open
                    => HasEffect(effects', "disperseParticles", "mainEarth")
               /\ ( /\ g.left.pinch.isPinching \/ g.right.pinch.isPinching
                    /\ previousPinchDistance > 0 )
                    => HasEffect(effects', "handlePinchZoom", "targetScale")
               /\ g.left.wave.isWaving \/ g.right.wave.isWaving
                    => HasEffect(effects', "handleWaveRotation", "earthRotation")
      ]_vars

\* a hand makes a gesture that the dual branch routes
Gesturing(hand) == hand.grasping \/ hand.open \/ hand.wave.isWaving

\* what belongs to the primary object: its particles, the zoom target and the
\* yaw accumulator
PrimaryTargets == {"mainEarth", "targetScale", "earthRotation"}

C17_PrimaryVisibility ==
    /\ earthGroup # NULL
    /\ scene["mainEarth"] = 1
    /\ earthGroup.visible <=> (Mode = "SINGLE")

\* a merge-animation step that does not complete the merge has run: the
\* primary object is still hidden
C17_Witness ==
    /\ lastOp = "mergeAnimation"
    /\ prevMode = "MERGING"
    /\ Mode = "MERGING"
    /\ ~earthGroup.visible
    /\ scene["mainEarth"] = 1

\* the sample a detectWave call records for the landmarks it is given
SampleOf(landmarks) ==
    [ x |-> getPalmCenter(landmarks)[1], y |-> getPalmCenter(landmarks)[2],
      age |-> 0 ]

\* C18: a detectWave call with landmarks leaves at most 5 samples in the
\* hand's history, in insertion order: the new sample is the last one, the
\* samples before it are the ones retained before in the same order, and
\* when 5 were retained exactly the oldest one is gone; the other hand's
\* history is not changed.
C18_HistoryWindow ==
    [][ ( lastOp' = "detectWave" /\ lastWave'.landmarks # NULL )
        => LET handType == lastWave'.hand
               before == handHistory[handType]
               after == handHistory'[handType]
               evicted == Len(before) + 1 - Len(after)
           IN  /\ Len(after) = Min(Len(before) + 1, HISTORY_LENGTH)
               /\ after[Len(after)] = SampleOf(lastWave'.landmarks)
               /\ \A i \in 1..(Len(after) - 1) : after[i] = before[i + evicted]
               /\ handHistory'[OtherHand(handType)]
                  = handHistory[OtherHand(handType)] ]_vars

\* a sixth sample and more have been recorded for the left hand while the
\* right hand has samples of its own
C18_Witness ==
    /\ lastOp = "detectWave"
    /\ lastWave.hand = "left"
    /\ lastWave.landmarks # NULL
    /\ equalRun["left"] > HISTORY_LENGTH
    /\ Len(handHistory["left"]) = HISTORY_LENGTH
    /\ handHistory["right"] # << >>

\* C19: the result of a detectWave call with landmarks depends on the oldest
\* and the newest retained sample only.  With fewer than 2 samples, or with
\* less than 10 ms between the two, it is {false, 0, 0}; otherwise the
\* direction is the sign of the change of x from the oldest to the newest,
\* the velocity is its magnitude divided by the elapsed seconds, and
\* isWaving holds iff that velocity is strictly above 0.02.
C19_WaveEstimate ==
    [][ ( lastOp' = "detectWave" /\ lastWave'.landmarks # NULL )
        => LET window == handHistory'[lastWave'.hand]
               result == lastWave'.result
               elapsedMs == window[1].age - window[Len(window)].age
               change == window[Len(window)].x - window[1].x
           IN  IF Len(window) < 2 \/ elapsedMs < 10
               THEN /\ result.isWaving = FALSE
                    /\ result.velocity = 0
                    /\ result.direction = 0
               ELSE /\ result.direction = Sign(change)
                    /\ result.velocity = (Abs(change) * 1000) \div elapsedMs
                    /\ result.isWaving
                       <=> (Abs(change) * 1000
                              > WAVE_VELOCITY_THRESHOLD * elapsedMs) ]_vars

\* a call has reported a wave to the left from a full window whose two
\* newest samples are at the same place
C19_Witness ==
    /\ lastOp = "detectWave"
    /\ lastWave.landmarks # NULL
    /\ Len(handHistory[lastWave.hand]) = HISTORY_LENGTH
    /\ lastWave.result.isWaving
    /\ lastWave.result.direction = -1
    /\ lastWave.result.velocity > WAVE_VELOCITY_THRESHOLD
    /\ equalRun[lastWave.hand] = 2

\* the x of the samples rises strictly up to some sample and is constant
\* from that sample on
RiseThenFlat(window) ==
    \E k \in 1..Len(window) :
        /\ \A i \in 1..(k - 1) : window[i].x < window[i + 1].x
        /\ \A i \in k..(Len(window) - 1) : window[i].x = window[i + 1].x

\* C20 (as claimed): for samples whose x rises and then stays constant,
\* isWaving is true whenever the retained window spans a change in x, and
\* false from the 5th consecutive sample with equal x onward.
C20_Original ==
    [][ ( /\ lastOp' = "detectWave"
          /\ lastWave'.landmarks # NULL
          /\ RiseThenFlat(handHistory'[lastWave'.hand]) )
        => LET window == handHistory'[lastWave'.hand]
           IN  /\ (window[Len(window)].x > window[1].x)
                    => lastWave'.result.isWaving
               /\ (equalRun'[lastWave'.hand] >= HISTORY_LENGTH)
                    => ~lastWave'.result.isWaving ]_vars

\* C20 (amended): for samples whose x rises and then stays constant,
\* isWaving is false from the 5th consecutive sample with equal x onward;
\* while the retained window spans a change in x, isWaving is true exactly
\* when the window spans at least 10 ms and the change per elapsed second is
\* above 0.02.
C20_RiseThenFlat ==
    [][ ( /\ lastOp' = "detectWave"
          /\ lastWave'.landmarks # NULL
          /\ RiseThenFlat(handHistory'[lastWave'.hand]) )
        => LET window == handHistory'[lastWave'.hand]
               elapsedMs == window[1].age - window[Len(window)].age
               change == window[Len(window)].x - window[1].x
           IN  /\ (change > 0)
                    => ( lastWave'.result.isWaving
                         <=> /\ elapsedMs >= 10
                             /\ change * 1000
                                  > WAVE_VELOCITY_THRESHOLD * elapsedMs )
               /\ (equalRun'[lastWave'.hand] >= HISTORY_LENGTH)
                    => ~lastWave'.result.isWaving ]_vars

\* the 5th consecutive sample with equal x has been recorded, time has
\* passed within the window, and the call reports no wave
C20_Witness ==
    /\ lastOp = "detectWave"
    /\ lastWave.landmarks # NULL
    /\ equalRun[lastWave.hand] = HISTORY_LENGTH
    /\ Len(handHistory[lastWave.hand]) = HISTORY_LENGTH
    /\ handHistory[lastWave.hand][1].age
         - handHistory[lastWave.hand][HISTORY_LENGTH].age >= 10
    /\ ~lastWave.result.isWaving

\* C21: the pinch distance is the same when thumb tip and index tip are
\* exchanged, and isPinching holds iff the 3D distance between the two is
\* strictly below 0.06 (a distance of exactly 0.06 is not a pinch).
C21_Pinch ==
    ( probe.input.kind = "pinch" /\ probe.output # NULL )
    => LET thumbTip == probe.input.points[4]
           indexTip == probe.input.points[8]
           squared == (thumbTip[1] - indexTip[1]) * (thumbTip[1] - indexTip[1])
                      + (thumbTip[2] - indexTip[2]) * (thumbTip[2] - indexTip[2])
                      + (thumbTip[3] - indexTip[3]) * (thumbTip[3] - indexTip[3])
       IN  /\ probe.output.swapped.distance = probe.output.result.distance
           /\ probe.output.swapped.isPinching = probe.output.result.isPinching
           /\ probe.output.result.isPinching <=> (squared < 60 * 60)

\* detectPinch has been applied to a thumb tip exactly 0.06 from the index
\* tip, in three dimensions: no pinch
C21_Witness ==
    /\ probe.input.kind = "pinch"
    /\ probe.output # NULL
    /\ probe.input.points[4][3] # probe.input.points[8][3]
    /\ probe.output.result.distance = 60
    /\ ~probe.output.result.isPinching

\* squared distance of landmark i from the wrist, in the image plane
WristDistSq(points, i) ==
    (points[i][1] - points[0][1]) * (points[i][1] - points[0][1])
    + (points[i][2] - points[0][2]) * (points[i][2] - points[0][2])

\* the fingers (1 index .. 4 pinky: tip 4k+4, base 4k+1, pip 4k+2) whose tip
\* is closer to the wrist than 1.2 x the base, and those whose tip is
\* further from the wrist than 1.1 x the pip
CurledFingers(points) ==
    { k \in 1..4 : 100 * WristDistSq(points, 4 * k + 4)
                     < 144 * WristDistSq(points, 4 * k + 1) }

ExtendedFingers(points) ==
    { k \in 1..4 : 100 * WristDistSq(points, 4 * k + 4)
                     > 121 * WristDistSq(points, 4 * k + 2) }

\* every tip is closer to the wrist than its base
FullyCurled(points) ==
    \A k \in 1..4 :
        WristDistSq(points, 4 * k + 4) < WristDistSq(points, 4 * k + 1)

\* every finger is stretched out: its tip is at least twice as far from the
\* wrist as its base, and its pip at most three quarters as far as its tip
FullyExtended(points) ==
    \A k \in 1..4 :
        /\ WristDistSq(points, 4 * k + 4) >= 4 * WristDistSq(points, 4 * k + 1)
        /\ 16 * WristDistSq(points, 4 * k + 2)
             <= 9 * WristDistSq(points, 4 * k + 4)

PairApplied == probe.input.kind = "pair" /\ probe.output # NULL

\* squared distance between the palm centers of the two hands of the input
PalmDistSq ==
    (probe.input.left.palm[1] - probe.input.right.palm[1])
      * (probe.input.left.palm[1] - probe.input.right.palm[1])
    + (probe.input.left.palm[2] - probe.input.right.palm[2])
      * (probe.input.left.palm[2] - probe.input.right.palm[2])

\* C23: pair grasping holds iff the left hand is grasping, the right hand is
\* grasping and the palm centers are less than 0.12 apart in the image
\* plane; it is false whenever a hand is absent.
C23_PairGrasp ==
    PairApplied
    => LET state == probe.output.state
       IN  IF probe.input.left = NULL \/ probe.input.right = NULL
           THEN ~state.bothHands.grasping
           ELSE state.bothHands.grasping
                  <=> /\ state.left.grasping
                      /\ state.right.grasping
                      /\ PalmDistSq < 120 * 120

\* two fists further apart than 0.12: no pair grasp
C23_Witness ==
    /\ PairApplied
    /\ probe.input.left # NULL
    /\ probe.input.right # NULL
    /\ probe.output.state.left.grasping
    /\ probe.output.state.right.grasping
    /\ PalmDistSq >= 120 * 120
    /\ ~probe.output.state.bothHands.grasping

\* the previous gesture state holds a pair distance: there is a previous
\* state and both hands were detected in it
PreviousAvailable ==
    /\ probe.input.previousState # EmptyState
    /\ probe.input.previousState.bothHands.detected

\* C24 (as claimed): with both hands present and a previous pair distance
\* available, spreading holds iff (current - previous) > 0.02 and current
\* > 0.3, and converging iff (previous - current) > 0.02 and current < 0.15;
\* with no previous distance available both are false.
C24_SpreadConverge ==
    ( PairApplied /\ probe.input.left # NULL /\ probe.input.right # NULL )
    => LET state == probe.output.state
           current == state.handsDistance
       IN  IF PreviousAvailable
           THEN LET previous == probe.input.previousState.handsDistance
                IN  /\ state.bothHands.spreading
                         <=> (current - previous > 20 /\ current > 300)
                    /\ state.bothHands.converging
                         <=> (previous - current > 20 /\ current < 150)
           ELSE /\ ~state.bothHands.spreading
                /\ ~state.bothHands.converging

\* C25: an absent hand yields detected, isPinching, isWaving, grasping and
\* open all false, and when either hand is absent every pair-level field is
\* false and handsDistance is 0.
C25_AbsentHands ==
    PairApplied
    => LET state == probe.output.state
           Neutral(hand) ==
               /\ ~hand.detected
               /\ ~hand.pinch.isPinching
               /\ ~hand.wave.isWaving
               /\ ~hand.grasping
               /\ ~hand.open
       IN  /\ (probe.input.left = NULL) => Neutral(state.left)
           /\ (probe.input.right = NULL) => Neutral(state.right)
           /\ (probe.input.left = NULL \/ probe.input.right = NULL)
                => /\ ~state.bothHands.detected
                   /\ ~state.bothHands.sameLocation
                   /\ ~state.bothHands.spreading
                   /\ ~state.bothHands.converging
                   /\ ~state.bothHands.grasping
                   /\ state.handsDistance = 0

\* the left hand is absent, the right hand is a fist, and the previous
\* state held a pair distance
C25_Witness ==
    /\ PairApplied
    /\ probe.input.left = NULL
    /\ probe.input.right # NULL
    /\ PreviousAvailable
    /\ probe.input.previousState.handsDistance > 0
    /\ probe.output.state.right.grasping
    /\ probe.output.state.handsDistance = 0

\* the labels of the rules that match a gesture state, as their places in
\* the order of precedence
MatchingRules(state) ==
    { n \in 1..8 :
        CASE n = 1 -> state.bothHands.grasping
          [] n = 2 -> state.left.grasping \/ state.right.grasping
          [] n = 3 -> state.left.open \/ state.right.open
          [] n = 4 -> state.bothHands.detected
          [] n = 5 -> state.left.pinch.isPinching
                      \/ state.right.pinch.isPinching
          [] n = 6 -> state.left.wave.isWaving \/ state.right.wave.isWaving
          [] n = 7 -> state.left.detected \/ state.right.detected
          [] OTHER -> TRUE }

RuleLabels ==
    << "CLASPED - MERGE", "FIST - CONVERGE", "OPEN - DISPERSE",
       "DUAL EARTH MODE", "PINCH - ZOOM", "WAVE - ROTATE", "HAND DETECTED",
       "AWAITING INPUT" >>

\* C26: the label of a gesture state is the label of the first rule that
\* matches, in the order pair grasping, single hand grasping, single hand
\* open, pair detected, pinching, waving, single hand detected, none; the
\* label of 'none' is produced iff no hand is detected.
C26_GestureName ==
    PairApplied
    => LET state == probe.output.state
           first == CHOOSE n \in MatchingRules(state) :
                        \A m \in MatchingRules(state) : n <= m
       IN  /\ probe.output.name = RuleLabels[first]
           /\ (probe.output.name = "AWAITING INPUT")
                <=> (probe.input.left = NULL /\ probe.input.right = NULL)

\* two hands, one of them pinching, neither grasping nor open: the pair of
\* hands is named, not the pinch
C26_Witness ==
    /\ PairApplied
    /\ probe.output.state.bothHands.detected
    /\ probe.output.state.right.pinch.isPinching
    /\ probe.output.name = "DUAL EARTH MODE"

\* the first hand of the tracker result that carries the label
FirstLabelled(label) ==
    LET found == { i \in 1..Len(latestHandResults) :
                     latestHandResults[i].label = label }
    IN  IF found = {} THEN NULL
        ELSE latestHandResults[CHOOSE i \in found :
                                  \A j \in found : i <= j].landmarks

\* C27: the hand the tracker labels "Left" is delivered to processGestures
\* as the right hand and the hand it labels "Right" as the left hand; two
\* hands with distinct labels are delivered as one left and one right hand.
C27_Handedness ==
    /\ getHand(latestHandResults, "Right") = FirstLabelled("Left")
    /\ getHand(latestHandResults, "Left") = FirstLabelled("Right")
    /\ ( /\ Len(latestHandResults) = 2
         /\ latestHandResults[1].label # latestHandResults[2].label )
        => /\ CurrentGestureState.left.detected
           /\ CurrentGestureState.right.detected

\* a frame has run on a result whose "Left" hand pinches and whose "Right"
\* hand is a fist: the left hand is the fist, the right hand pinches
C27_Witness ==
    /\ lastOp = "animate"
    /\ Len(latestHandResults) = 2
    /\ latestHandResults[1].label = "Left"
    /\ latestHandResults[1].landmarks = PinchFar
    /\ latestHandResults[2].label = "Right"
    /\ latestHandResults[2].landmarks = FistLeft
    /\ CurrentGestureState.left.grasping
    /\ CurrentGestureState.right.pinch.isPinching
    /\ ~CurrentGestureState.left.pinch.isPinching

\* C28: the target scale is within [0.3, 2.0], and so are the smoothed scale
\* and the scale the frame step applies to the primary object.
C28_ScaleRange ==
    /\ 300 <= targetScale /\ targetScale <= 2000
    /\ 300 <= earthScale /\ earthScale <= 2000
    /\ 300 <= earthGroup.scale /\ earthGroup.scale <= 2000

\* a frame step whose pinch zoom has left the target at the upper end has
\* applied a smoothed scale on its way there to the primary object
C28_Witness ==
    /\ lastOp = "animate"
    /\ previousPinchDistance = 40
    /\ targetScale = 2000
    /\ earthGroup.scale = earthScale
    /\ earthScale > 1000

\* C29: the dispersion amount of a body is within [0, 1]; disperse(i) raises
\* it by i x 0.1 capped at 1, converge(i) lowers it by i x 0.15 floored at 0,
\* and the dispersed flag is false after a converge that leaves it at 0.
C29_DispersionRange ==
    [][ /\ 0 <= body'.dispersionAmount
        /\ body'.dispersionAmount <= 1000
        /\ \A i \in DisperseIntensities :
             ( lastOp' = "disperseParticles"
               /\ body' = disperseParticles(body, i) )
             => body'.dispersionAmount
                  = Min(1000, body.dispersionAmount + (i * 100) \div 1000)
        /\ \A i \in ConvergeIntensities :
             ( lastOp' = "convergeParticles"
               /\ body' = convergeParticles(body, i) )
             => body'.dispersionAmount
                  = Max(0, body.dispersionAmount - (i * 150) \div 1000)
        /\ ( lastOp' = "convergeParticles" /\ body'.dispersionAmount = 0 )
            => ~body'.dispersed ]_vars

\* a converge call has brought the amount of a dispersed body down to 0,
\* from less than the step it lowers by
C29_Witness ==
    /\ lastOp = "convergeParticles"
    /\ body.dispersionAmount = 0
    /\ ~body.dispersed
    /\ body.outerParticle.velocity > 0
    /\ body.earthParticle.velocity > 0

\* every particle of the body is at its rest position
AtRest(b) ==
    /\ b.earthParticle.position = b.earthParticle.base
    /\ b.outerParticle.position = b.outerParticle.base

\* C30: a converge(1.0) call on a body whose live positions equal its rest
\* positions and whose dispersion amount is 0 leaves every live position
\* unchanged and the amount at 0 (so any number of such calls does).
C30_ConvergeAtRest ==
    [][ ( /\ lastOp' = "convergeParticles"
          /\ body' = convergeParticles(body, 1000)
          /\ AtRest(body)
          /\ body.dispersionAmount = 0 )
        => /\ body'.earthParticle.position = body.earthParticle.position
           /\ body'.outerParticle.position = body.outerParticle.position
           /\ AtRest(body')
           /\ body'.dispersionAmount = 0 ]_vars

\* converge has been called on a body that was never dispersed and is at
\* rest
C30_Witness ==
    /\ lastOp = "convergeParticles"
    /\ AtRest(body)
    /\ body.dispersionAmount = 0
    /\ body.earthParticle.velocity = 0
    /\ body.outerParticle.velocity = 0
    /\ ~body.dispersed

\* the distance of a particle from its rest position
restOffset(particle) == Abs(particle.position - particle.base)

MergeMidpointStep ==
    /\ lastOp' = "mergeAnimation"
    /\ rafQueue # << >>
    /\ mergeProgress(Head(rafQueue).elapsed) = 500
    /\ leftEarth # NULL
    /\ rightEarth # NULL

\* C32, as stated: at progress 0.5 of a merge the horizontal position of
\* each secondary object is its starting offset (-1.2 left, 1.2 right)
\* times 1 - (1 - 0.5)^3.
C32_Original ==
    [][ MergeMidpointStep
        => LET cube == (500 * 500 * 500) \div 1000000
           IN  /\ leftEarth' # NULL /\ rightEarth' # NULL
               /\ leftEarth'.x = -((1200 * (1000 - cube)) \div 1000)
               /\ rightEarth'.x = (1200 * (1000 - cube)) \div 1000 ]_vars

\* C32: at progress 0.5 of a merge the horizontal position of each
\* secondary object is its starting offset (-1.2 left, 1.2 right) times
\* (1 - 0.5)^3, that is times 1 - eased: -0.15 and 0.15.
C32_MergeMidpoint ==
    [][ MergeMidpointStep
        => LET cube == (500 * 500 * 500) \div 1000000
           IN  /\ leftEarth' # NULL /\ rightEarth' # NULL
               /\ leftEarth'.x = -((1200 * cube) \div 1000)
               /\ rightEarth'.x = (1200 * cube) \div 1000 ]_vars

\* the callback has run halfway through a merge: the objects are 0.15 from
\* the center and the merge is still in flight
C32_Witness ==
    /\ lastOp = "mergeAnimation"
    /\ isMerging
    /\ leftEarth # NULL /\ rightEarth # NULL
    /\ leftEarth.x = -150
    /\ rightEarth.x = 150
    /\ rafQueue # << >>
    /\ Head(rafQueue).elapsed = 500

\* the step has flagged the position buffer of the particle system
Flagged(made, system) ==
    \E i \in 1..Len(made) : made[i] = Effect("needsUpdate", system, "frame")

\* a velocity or a displacement above 0.0001, in thousandths
AboveMotionEpsilon(n) == 10 * Abs(n) > 1

C34_AbsentHandHistory ==
    [][ lastOp' = "getGestureState"
        => \A handType \in HandTypes :
             LET before == handHistory[handType]
                 after == handHistory'[handType]
             IN  /\ handOf(latestHandResults, handType) = NULL
                      => after = before
                 /\ ( /\ handOf(latestHandResults, handType) # NULL
                      /\ before # << >>
                      /\ Len(before) < HISTORY_LENGTH )
                    => /\ after[1] = before[1]
                       /\ Len(after) = Len(before) + 1 ]_vars

\* a frame has run without the left hand while the left hand's history
\* holds a sample recorded earlier, and has left it there
C34_Witness ==
    /\ lastOp = "getGestureState"
    /\ handOf(latestHandResults, "left") = NULL
    /\ handHistory["left"] # << >>
    /\ handHistory["left"][1].age > 0
    /\ capture.read

\* the newest retained sample of a history
Newest(history) == history[Len(history)]

\* C35: the sample a frame records for a detected hand carries the capture
\* time of the tracker result it is derived from (its age is the age of the
\* result), and a frame that reads a result an earlier frame has read
\* already does not add a sample with a newer timestamp than the newest one
\* retained.
C35_CaptureTime ==
    [][ lastOp' = "getGestureState"
        => \A handType \in HandTypes :
             LET before == handHistory[handType]
                 after == handHistory'[handType]
             IN  handOf(latestHandResults, handType) # NULL
                 => /\ Newest(after).age = capture.age
                    /\ ( capture.read /\ before # << >> )
                       => Newest(after).age >= Newest(before).age ]_vars

\* C36: after every spawn call, merge call and mergeAnimation step (in every
\* state the lifecycle controller reaches) leftEarth and rightEarth are both
\* non-null exactly when isDualMode is set, neither is non-null without the
\* other, and isMerging is set only while isDualMode is set.
C36_RefsMatchFlags ==
    /\ (leftEarth # NULL /\ rightEarth # NULL) <=> isDualMode
    /\ (leftEarth # NULL) <=> (rightEarth # NULL)
    /\ isMerging => isDualMode

\* the first mergeAnimation step of a merge has run: both objects are still
\* where they were spawned and both flags are set
C36_Witness ==
    /\ lastOp = "mergeAnimation"
    /\ isDualMode /\ isMerging
    /\ leftEarth # NULL /\ rightEarth # NULL
    /\ leftEarth.x = -1200
    /\ rightEarth.x = 1200
    /\ ~earthGroup.visible

\* the writes to the particles and the rotation of an object
ObjectWrites ==
    {"convergeParticles", "disperseParticles", "rotation.y", "updateParticles"}

\* C37: whatever the interleaving of frames and mergeAnimation callbacks, a
\* frame converges, disperses, rotates or integrates a secondary object
\* only while the object exists: after the completion of a merge has
\* destroyed the objects no frame writes to them.  (A frame destroys no
\* object, so an object that exists when the frame writes to it exists at
\* the end of the frame.)
C37_NoUseAfterDestroy ==
    [][ lastOp' = "animate"
        => \A i \in 1..Len(effects') :
             effects'[i].op \in ObjectWrites
             => /\ effects'[i].target = "leftEarth" => leftEarth' # NULL
                /\ effects'[i].target = "rightEarth" => rightEarth' # NULL ]_vars

\* a frame has run after a merge destroyed the secondary objects, with a
\* gesturing hand, and has written to the primary object only
C37_Witness ==
    /\ lastOp = "animate"
    /\ framesSinceSpawn > 0
    /\ leftEarth = NULL /\ rightEarth = NULL
    /\ HasEffect(effects, "convergeParticles", "mainEarth")
    /\ HasEffect(effects, "updateParticles", "mainEarth")
    /\ \A i \in 1..Len(effects) :
         effects[i].target \notin {"leftEarth", "rightEarth"}

\* C38: a frame that begins in SINGLE with the cooldown <= 0 and pair
\* grasping true spawns and starts the merge in that one step: it calls
\* spawnDualEarths and then mergeEarths, and it ends in MERGING, with the
\* two objects created and the animation scheduled, so the mode it reports
\* is never DUAL.
C38_SpawnAndMergeInOneFrame ==
    [][ ( /\ lastOp' = "animate"
          /\ Mode = "SINGLE"
          /\ dualEarthCooldown <= 0
          /\ CurrentGestureState.bothHands.grasping )
        => /\ Mode' = "MERGING"
           /\ Mode' # "DUAL"
           /\ leftEarth' # NULL /\ rightEarth' # NULL
           /\ Len(rafQueue') = 1
           /\ \E i, j \in 1..Len(effects') :
                /\ i < j
                /\ effects'[i] = Effect("spawnDualEarths", "scene", "hands")
                /\ effects'[j] = Effect("mergeEarths", "scene", "hands") ]_vars

\* a frame that began in SINGLE on clasped hands has spawned and is merging
C38_Witness ==
    /\ lastOp = "animate"
    /\ prevMode = "SINGLE"
    /\ Mode = "MERGING"
    /\ framesSinceSpawn = 0
    /\ CurrentGestureState.bothHands.grasping
    /\ dualEarthCooldown = SPAWN_COOLDOWN - 1
    /\ Len(rafQueue) = 1

\* C39: starting a merge and completing a merge leave the cooldown as it
\* is: a mergeAnimation step does not change it, and a frame that starts a
\* merge from DUAL changes it by the frame's own decrement only.  So a frame
\* in SINGLE after a merge has completed, with both hands detected and the
\* cooldown <= 0, spawns again.
C39_MergeKeepsCooldown ==
    /\ [][ lastOp' = "mergeAnimation"
           => dualEarthCooldown' = dualEarthCooldown ]_vars
    /\ [][ ( lastOp' = "animate" /\ Mode = "DUAL" /\ Mode' = "MERGING" )
           => dualEarthCooldown' = Max(0, dualEarthCooldown - 1) ]_vars
    /\ [][ ( /\ lastOp' = "animate"
             /\ Mode = "SINGLE"
             /\ framesSinceSpawn >= 0
             /\ CurrentGestureState.bothHands.detected
             /\ dualEarthCooldown <= 0 )
           => /\ HasEffect(effects', "spawnDualEarths", "scene")
              /\ leftEarth' # NULL /\ rightEarth' # NULL
              /\ Mode' # "SINGLE" ]_vars

\* after a merge that completed, a frame with both hands detected and the
\* cooldown run out has spawned again
C39_Witness ==
    /\ lastOp = "animate"
    /\ prevMode = "SINGLE"
    /\ Mode = "DUAL"
    /\ framesSinceSpawn = 0
    /\ spawnGap > 0
    /\ CurrentGestureState.bothHands.detected
    /\ dualEarthCooldown = SPAWN_COOLDOWN - 1

\* a hand pinches in the latest tracker result
Pinching ==
    \/ CurrentGestureState.left.pinch.isPinching
    \/ CurrentGestureState.right.pinch.isPinching

\* currentPinch of the single branch
CurrentPinch ==
    IF CurrentGestureState.left.pinch.isPinching
    THEN CurrentGestureState.left.pinch.distance
    ELSE CurrentGestureState.right.pinch.distance

\* C40: previousPinchDistance is written only by a frame processed in
\* single-object mode (a frame that ends in SINGLE): it becomes the current
\* pinch distance while a hand pinches and 0 otherwise.  A frame processed
\* in DUAL or MERGING (a frame that spawns included) leaves it as it is, and
\* so does every step that is not a frame; hence a pinching frame in SINGLE
\* after a merge moves the zoom target by 5 x (current distance - stored
\* distance), the stored distance being the one from before the spawn.
C40_PinchDistance ==
    /\ [][ lastOp' # "animate"
           => previousPinchDistance' = previousPinchDistance ]_vars
    /\ [][ ( lastOp' = "animate" /\ Mode' # "SINGLE" )
           => previousPinchDistance' = previousPinchDistance ]_vars
    /\ [][ ( lastOp' = "animate" /\ Mode' = "SINGLE" )
           => /\ previousPinchDistance'
                 = IF Pinching THEN CurrentPinch ELSE 0
              /\ ( Pinching /\ previousPinchDistance > 0 )
                 => targetScale'
                    = Max(300, Min(2000, targetScale
                             + (CurrentPinch - previousPinchDistance) * 5))
            ]_vars

\* a pinch at 0.04 was stored before a spawn; after the merge a frame in
\* SINGLE with a pinch at 0.02 has lowered the zoom target by 0.1
C40_Witness ==
    /\ lastOp = "animate"
    /\ prevMode = "SINGLE"
    /\ Mode = "SINGLE"
    /\ framesSinceSpawn > 0
    /\ Pinching
    /\ previousPinchDistance = 20
    /\ targetScale = 900
    /\ earthScale = 990

====
